---- MODULE Spec2Model ----
(***************************************************************************)
(* Model of the roadmap-creation pipeline of roadmap_builder:              *)
(*   server/app/agents/orchestrator.py   PipelineOrchestrator              *)
(*   server/app/agents/validator.py      ValidatorAgent.validate           *)
(*   server/app/agents/base.py           BaseAgent.generate_structured     *)
(*   server/app/agents/architect.py      ArchitectAgent.create_outline     *)
(*   server/app/routers/roadmaps_create.py  the three request handlers     *)
(*                                                                         *)
(* Python values: an Optional[T] is a sequence of length 0 (None) or 1;    *)
(* a str is a sequence of characters; a list is a sequence.  uuid4-based   *)
(* identifiers are taken to be fresh (no collisions).                      *)
(***************************************************************************)
EXTENDS Integers, Sequences, FiniteSets, Bags, TLC

VARIABLES
    \* ---- PipelineState (state.py, orchestrator.py) ----
    stage,                \* PipelineState.stage
    topic,                \* PipelineState.topic
    suggested_title,      \* PipelineState.suggested_title   (Optional[str])
    confirmed_title,      \* PipelineState.confirmed_title   (Optional[str])
    session_outline,      \* PipelineState.session_outline   (Optional)
    researched_sessions,  \* PipelineState.researched_sessions
    validation_result,    \* PipelineState.validation_result (Optional)
    fix_attempt,          \* PipelineState.fix_attempt
    fix_history,          \* PipelineState.fix_history
    roadmap_id,           \* PipelineState.roadmap_id        (Optional)
    error_message,        \* PipelineState.error_message     (Optional[str])
    \* ---- the two generators working on the state: "run" is run_pipeline
    \*      (with start_creation before it), "review" is proceed_after_review
    pc,                   \* [who -> position in the code]
    events,               \* [who -> events delivered on that request's stream]
    title,                \* [who -> local title of _save_roadmap]
    save_sessions,        \* [who -> researched_sessions argument of _save_roadmap]
    \* ---- locals of run_pipeline ----
    returned_title,       \* title returned by create_outline, not yet stored
    tasks,                \* the tasks of the fan-outs
    completed,            \* list a fan-out is building (completion order, then sorted)
    completion_order,     \* order values as as_completed yielded them, until the list is stored
    validations,          \* is_valid of every Validator result of the run, in order
    last_response,        \* the ValidatorResponse the model returned last
    exc,                  \* [who -> text of the exception the handler caught]
    \* ---- process-wide ----
    registered,           \* pipeline_id in _active_pipelines
    roadmaps,             \* Roadmap documents (with their Session documents)
    final_status,         \* AgentTrace.final_status of the pipeline's trace
    trace_spans,          \* AgentTrace.spans of the pipeline's trace, as a bag
    semaphores,           \* asyncio.Semaphore objects constructed so far (their values)
    api_semaphore,        \* orchestrator._api_semaphore (Optional reference)
    \* ---- BaseAgent.generate_structured ----
    gs,
    \* ---- ArchitectAgent.create_outline ----
    arch,
    \* ---- YouTubeAgent: the class attribute and the find_videos calls ----
    yt,
    \* ---- YouTubeAgent: one find_videos call, tier by tier ----
    fv,
    \* ---- EditorAgent: one agent and the edit_session calls on it ----
    ed,
    \* ---- BaseAgent._call_with_network_retry ----
    nr,
    \* ---- the client of the pipeline: its cancel request and its stream ----
    client

statevars == << stage, topic, suggested_title, confirmed_title, session_outline,
                researched_sessions, validation_result, fix_attempt, fix_history,
                roadmap_id, error_message >>

runvars == << pc, events, title, save_sessions, returned_title, completed,
              completion_order,
              validations, last_response, exc, registered, roadmaps,
              final_status, trace_spans >>

semvars == << tasks, semaphores, api_semaphore >>

agentvars == << gs, arch, yt, fv, ed, nr, client >>

vars == << statevars, runvars, semvars, agentvars >>

----------------------------------------------------------------------------
(* Python helpers *)

None == << >>
Some(x) == << x >>

\* bool(x) of an Optional[str]: None and "" are falsy
Truthy(opt) == opt # None /\ opt[1] # << >>

\* a str of n characters
Str(n) == [i \in 1..n |-> "c"]

\* s[:n]
Prefix(s, n) == SubSeq(s, 1, IF Len(s) < n THEN Len(s) ELSE n)

Range(s) == { s[i] : i \in 1..Len(s) }

\* the elements of s in first-appearance order (keys of a dict filled in order)
RECURSIVE Dedup(_)
Dedup(s) ==
    IF s = << >> THEN << >>
    ELSE LET d == Dedup(SubSeq(s, 1, Len(s) - 1))
             x == s[Len(s)]
         IN IF x \in Range(d) THEN d ELSE Append(d, x)

RECURSIVE Concat(_)
Concat(ss) == IF ss = << >> THEN << >> ELSE Head(ss) \o Concat(Tail(ss))

----------------------------------------------------------------------------
(* Bounds of the model *)

MaxSessions == 2      \* sessions Phase 1 of the Architect may return
MaxTopicLen == 101    \* longest topic tried
MaxReviewSessions == 1   \* sessions per outline when a review request is modelled

----------------------------------------------------------------------------
(* Program constants *)

MAX_CONCURRENT_API_CALLS == 5    \* model_config.py
max_fix_attempts == 2            \* run_pipeline
TitleLimit == 100                \* topic[:100] in _save_roadmap

----------------------------------------------------------------------------
(* Inputs *)

Who == {"run", "review"}

\* topics the client may submit
Topics == { Str(2), Str(MaxTopicLen) }

\* titles Phase 1 of the Architect may return ("" is a str like any other)
ArchitectTitles == { << >>, << "B" >> }

\* confirmed_title of a review request: absent, "", or "A"
ConfirmedTitles == { None, Some(<< >>), Some(<< "A" >>) }

\* video lists find_videos may return
VideoLists == { << >>, << "v" >> }

\* the id create_outline gives the item at Phase-1 position i
SessionId(i) == 100 + i

Ev(e, d, n) == [event |-> e, detail |-> d, n |-> n]

\* an AgentSpan after complete_span: the agent, the session the invocation
\* worked on (0 for an agent invoked once per stage) and the status
Span(agent_name, key, status) ==
    [agent_name |-> agent_name, key |-> key, status |-> status]

\* the spans of a list, without their order
SpanBag(spans) ==
    [sp \in { spans[k] : k \in 1..Len(spans) } |->
        Cardinality({ k \in 1..Len(spans) : spans[k] = sp })]

\* self.trace.spans.append(span), self.trace.spans.extend(spans)
AddSpans(spans) == trace_spans' = trace_spans (+) SpanBag(spans)

\* the local list "spans" of _run_researchers_parallel: one span is appended
\* with each session the loop over as_completed appends
ResearchSpans(done) ==
    [k \in 1..Len(done) |-> Span("researcher", done[k].outline_id, "success")]

\* the local list "spans" of _run_youtube_agent: every task appends its span,
\* completed with success or with the error find_videos raised
VideoSpans(ts) ==
    [k \in 1..Len(ts) |->
        Span("youtube", ts[k].id, IF ts[k].st = "done" THEN "success" ELSE "error")]

\* the local list "spans" of _run_editor: the span of every result of gather
EditSpans(ts) ==
    [k \in 1..Len(ts) |-> Span("editor", ts[k].id, "success")]

----------------------------------------------------------------------------
(* get_api_semaphore and asyncio.Semaphore *)

get_api_semaphore_Fresh(sems, global) ==
    [semaphores |-> Append(sems, MAX_CONCURRENT_API_CALLS),
     api_semaphore |-> Some(Len(sems) + 1),
     sem |-> Len(sems) + 1]
\* get_api_semaphore(): the semaphore objects and the module global after the
\* call, and the object returned
get_api_semaphore(sems, global) ==
    IF global = None
    THEN [semaphores |-> Append(sems, MAX_CONCURRENT_API_CALLS),
          api_semaphore |-> Some(Len(sems) + 1),
          sem |-> Len(sems) + 1]
    ELSE [semaphores |-> sems, api_semaphore |-> global, sem |-> global[1]]

\* Semaphore.locked()
SemLocked(sems, s) == sems[s] = 0

\* Semaphore.acquire() once it can proceed, Semaphore.release()
SemAcquire(sems, s) == [sems EXCEPT ![s] = @ - 1]
SemRelease(sems, s) == [sems EXCEPT ![s] = @ + 1]

NewTask(kind, run, id) ==
    [kind |-> kind, run |-> run, id |-> id, st |-> "created", sem |-> 0, out |-> None]

Finished_DoneOnly(t) == t.st = "done"
Finished(t) == t.st \in {"done", "failed"}

----------------------------------------------------------------------------
(* ArchitectAgent.create_outline, as far as the orchestrator uses it *)

\* the outline for n Phase-1 sessions: fresh ids, order = position
Outline(n) == [i \in 1..n |-> [id |-> SessionId(i), order |-> i]]

\* ResearcherAgent.research_session
Research(item) ==
    [outline_id |-> item.id, order |-> item.order, content |-> 0, videos |-> << >>]

\* EditorAgent.edit_session: content replaced, the rest carried over
Edit(session) == [session EXCEPT !.content = @ + 1]

----------------------------------------------------------------------------
(* list.sort(key=lambda s: s.order): stable *)

InsertByOrder(s, x) ==
    LET k == Cardinality({ i \in 1..Len(s) : s[i].order <= x.order })
    IN SubSeq(s, 1, k) \o << x >> \o SubSeq(s, k + 1, Len(s))

RECURSIVE InsertionSort(_)
InsertionSort(s) ==
    IF s = << >> THEN << >>
    ELSE InsertByOrder(InsertionSort(SubSeq(s, 1, Len(s) - 1)), s[Len(s)])

SortByOrder_Unsorted(s) == s
SortByOrder(s) == InsertionSort(s)

----------------------------------------------------------------------------
(* ValidatorAgent.validate *)

\* str.lower() on the strings the inputs use
Lower(s) ==
    CASE s = "HIGH" -> "high"
      [] s = "GAP" -> "gap"
      [] s = "PROJECT" -> "project"
      [] OTHER -> s

IssueTypes == {"overlap", "gap", "ordering", "coherence", "depth"}
Severities == {"low", "medium", "high"}

\* researched_sessions[idx] raises IndexError
IndexRaises(idx, n) == idx >= n \/ idx < 0 - n

\* researched_sessions[idx] for a Python index (negative counts from the end)
PyIndex(s, idx) == IF idx >= 0 THEN s[idx + 1] ELSE s[Len(s) + idx + 1]

\* [sessions[idx].outline_id for idx in indices if idx < len(sessions)]
RECURSIVE AffectedIds(_, _)
AffectedIds(indices, sessions) ==
    IF indices = << >> THEN << >>
    ELSE (IF Head(indices) < Len(sessions)
          THEN << PyIndex(sessions, Head(indices)).outline_id >>
          ELSE << >>)
         \o AffectedIds(Tail(indices), sessions)

\* the comprehension raises IndexError
AffectedRaises(indices, sessions) ==
    \E i \in 1..Len(indices) :
        /\ indices[i] < Len(sessions)
        /\ IndexRaises(indices[i], Len(sessions))

ConvertIssue_KeepsRaw(issue, sessions) ==
    [issue_type |-> Lower(issue.issue_type),
     severity |-> Lower(issue.severity),
     affected_session_ids |-> AffectedIds(issue.affected_session_indices, sessions)]
ConvertIssue(issue, sessions) ==
    [issue_type |-> IF Lower(issue.issue_type) \in IssueTypes
                    THEN Lower(issue.issue_type) ELSE "coherence",
     severity |-> IF Lower(issue.severity) \in Severities
                  THEN Lower(issue.severity) ELSE "medium",
     affected_session_ids |-> AffectedIds(issue.affected_session_indices, sessions)]

ValidateRaises(response, sessions) ==
    \E i \in 1..Len(response.issues) :
        AffectedRaises(response.issues[i].affected_session_indices, sessions)

ConvertedIssues(response, sessions) ==
    [i \in 1..Len(response.issues) |-> ConvertIssue(response.issues[i], sessions)]

HasHighSeverity(issues) == \E i \in 1..Len(issues) : issues[i].severity = "high"

Validate_TrustsModel(response, sessions) ==
    [is_valid |-> response.is_valid,
     issues |-> ConvertedIssues(response, sessions),
     overall_score |-> response.overall_score]
Validate(response, sessions) ==
    LET issues == ConvertedIssues(response, sessions)
    IN [is_valid |-> ~HasHighSeverity(issues),
        issues |-> issues,
        overall_score |-> response.overall_score]

RawIssue(t, s, idx) == [issue_type |-> t, severity |-> s, affected_session_indices |-> idx]

VResponse(v, issues, score) == [is_valid |-> v, issues |-> issues, overall_score |-> score]

\* responses the Validator model may give
ValidatorResponses ==
    { VResponse(TRUE, << >>, 88),
      VResponse(FALSE, << >>, 20),
      VResponse(TRUE, << RawIssue("gap", "high", << 0 >>) >>, 90),
      VResponse(FALSE, << RawIssue("GAP", "HIGH", << 1, 0 >>),
                          RawIssue("overlap", "low", << 1 >>) >>, 40),
      VResponse(FALSE, << RawIssue("bogus", "critical", << 0 >>) >>, 40),
      VResponse(FALSE, << RawIssue("ordering", "high", << MaxSessions >>) >>, 40),
      VResponse(FALSE, << RawIssue("depth", "high", << -1 >>) >>, 40),
      VResponse(TRUE, << RawIssue("coherence", "medium", << 0 - (MaxSessions + 1) >>) >>, 70) }

----------------------------------------------------------------------------
(* _run_editor: grouping of the issues *)

\* list(issues_by_session.keys())
IssueSessionKeys_PerMention(issues) ==
    Concat([i \in 1..Len(issues) |-> issues[i].affected_session_ids])
IssueSessionKeys(issues) ==
    Dedup(Concat([i \in 1..Len(issues) |-> issues[i].affected_session_ids]))

\* the dict appended to state.fix_history
FixRecord_CountsSessions(attempt, result) ==
    [attempt |-> attempt,
     issues_count |-> Len(IssueSessionKeys(result.issues)),
     affected_sessions |-> IssueSessionKeys(result.issues)]
FixRecord(attempt, result) ==
    [attempt |-> attempt,
     issues_count |-> Len(result.issues),
     affected_sessions |-> IssueSessionKeys(result.issues)]

\* the session with this outline_id (sessions_by_id.get)
SessionById(sessions, id) ==
    LET i == CHOOSE i \in 1..Len(sessions) : sessions[i].outline_id = id
    IN sessions[i]

ReplaceEdited_Appends(sessions, edited) == sessions \o edited
\* "Replace edited sessions in the list"
ReplaceEdited(sessions, edited) ==
    [i \in 1..Len(sessions) |->
        IF \E k \in 1..Len(edited) : edited[k].outline_id = sessions[i].outline_id
        THEN SessionById(edited, sessions[i].outline_id)
        ELSE sessions[i]]

----------------------------------------------------------------------------
(* _save_roadmap: the title *)

ResolveTitle_SuggestedFirst(confirmed, suggested, t) ==
    IF Truthy(suggested) THEN suggested[1]
    ELSE IF Truthy(confirmed) THEN confirmed[1]
    ELSE Prefix(t, TitleLimit)
\* confirmed_title or suggested_title or topic[:100]
ResolveTitle(confirmed, suggested, t) ==
    IF Truthy(confirmed) THEN confirmed[1]
    ELSE IF Truthy(suggested) THEN suggested[1]
    ELSE Prefix(t, TitleLimit)

----------------------------------------------------------------------------
(* The pipeline: PipelineOrchestrator and the request handlers that drive it *)

\* defaults of the two PipelineState fields the orchestrator counts edits with
fix_attempt_default == 0
fix_history_default == << >>

\* PipelineOrchestrator.__init__ and initialize(topic)
PipelineInit ==
    /\ stage = "initialized"
    /\ topic \in Topics
    /\ suggested_title = None
    /\ confirmed_title = None
    /\ session_outline = None
    /\ researched_sessions = << >>
    /\ validation_result = None
    /\ fix_attempt = fix_attempt_default
    /\ fix_history = fix_history_default
    /\ roadmap_id = None
    /\ error_message = None
    /\ pc = [w \in Who |-> IF w = "run" THEN "initialized" ELSE "none"]
    /\ events = [w \in Who |-> << >>]
    /\ title = [w \in Who |-> << >>]
    /\ save_sessions = [w \in Who |-> << >>]
    /\ exc = [w \in Who |-> ""]
    /\ returned_title = << >>
    /\ completed = << >>
    /\ completion_order = << >>
    /\ validations = << >>
    /\ last_response = None
    /\ registered = FALSE
    /\ roadmaps = << >>
    /\ final_status = "running"
    /\ trace_spans = EmptyBag
    /\ client = [cancel |-> "none", consumer |-> "reading"]

SemInit ==
    /\ tasks = << >>
    /\ semaphores = << >>
    /\ api_semaphore = None

Goto(who, p) == pc' = [pc EXCEPT ![who] = p]
Emit(who, evs) == events' = [events EXCEPT ![who] = @ \o evs]

\* "except Exception as e" of run_pipeline and of proceed_after_review, up to
\* the await of trace.save()
Raise_Unrecorded(who, msg) ==
    /\ stage' = "error"
    /\ error_message' = error_message
    /\ final_status' = "error"
    /\ exc' = [exc EXCEPT ![who] = msg]
    /\ Goto(who, "error_trace_save")
Raise(who, msg) ==
    /\ stage' = "error"
    /\ error_message' = Some(msg)
    /\ final_status' = "error"
    /\ exc' = [exc EXCEPT ![who] = msg]
    /\ Goto(who, "error_trace_save")

\* "finally" of the two event_generator functions of the router
RouterFinally(who, stg) ==
    registered' = IF who = "review" THEN FALSE
                  ELSE IF stg \in {"complete", "error"} THEN FALSE
                  ELSE registered

\* the awaits of each generator that may raise
AwaitPcs(who) ==
    {"roadmap_insert", "save_trace_save", "session_insert", "roadmap_save",
     "complete_trace_save"}
    \cup (IF who = "run"
          THEN {"architect_call", "architect_trace_save", "research_trace_save",
                "videos_trace_save", "validator_call", "validator_trace_save",
                "editor_trace_save"}
          ELSE {})

\* an awaited agent call or persistence call raises
AwaitFails(who) ==
    /\ pc[who] \in AwaitPcs(who)
    /\ Raise(who, pc[who])
    /\ AddSpans(IF pc[who] = "architect_call"
                THEN << Span("architect", 0, "error") >>
                ELSE IF pc[who] = "validator_call"
                THEN << Span("validator", 0, "error") >>
                ELSE << >>)
    /\ UNCHANGED << agentvars, topic, suggested_title, confirmed_title, session_outline,
                    researched_sessions, validation_result, fix_attempt,
                    fix_history, roadmap_id, events, title, save_sessions,
                    returned_title, completed, completion_order, validations, last_response,
                    registered, roadmaps, semvars >>

\* trace.save() of the handler returned: the error event is yielded
ErrorTraceSaved(who) ==
    /\ pc[who] = "error_trace_save"
    /\ Emit(who, << Ev("error", exc[who], 0) >>)
    /\ Goto(who, "ended")
    /\ RouterFinally(who, stage)
    /\ UNCHANGED << agentvars, statevars, title, save_sessions, returned_title, completed, completion_order,
                    validations, last_response, exc, roadmaps, semvars, final_status, trace_spans >>

\* trace.save() of the handler raised: the router's event_generator catches
\* it and yields its own error event
ErrorTraceSaveFails(who) ==
    /\ pc[who] = "error_trace_save"
    /\ Emit(who, << Ev("error", "error_trace_save", 0) >>)
    /\ Goto(who, "ended")
    /\ RouterFinally(who, stage)
    /\ UNCHANGED << agentvars, statevars, title, save_sessions, returned_title, completed, completion_order,
                    validations, last_response, exc, roadmaps, semvars, final_status, trace_spans >>

(* start_creation *)

\* generate_interview_questions up to the Interviewer call
GenerateInterviewQuestions ==
    /\ pc["run"] = "initialized"
    /\ stage' = "interviewing"
    /\ Goto("run", "interviewer_call")
    /\ UNCHANGED << agentvars, topic, suggested_title, confirmed_title, session_outline,
                    researched_sessions, validation_result, fix_attempt,
                    fix_history, roadmap_id, error_message, events, title,
                    save_sessions, returned_title, completed, completion_order, validations,
                    last_response, exc, registered, roadmaps, semvars, final_status, trace_spans >>

\* the Interviewer returned; start_creation stores the pipeline
InterviewerReturns ==
    /\ pc["run"] = "interviewer_call"
    /\ registered' = TRUE
    /\ Goto("run", "awaiting_answers")
    /\ AddSpans(<< Span("interviewer", 0, "success") >>)
    /\ UNCHANGED << agentvars, statevars, events, title, save_sessions, returned_title,
                    completed, completion_order, validations, last_response, exc, roadmaps, semvars, final_status >>

\* the Interviewer raised: generate_interview_questions re-raises and
\* start_creation ends without storing the pipeline
InterviewerFails ==
    /\ pc["run"] = "interviewer_call"
    /\ Goto("run", "start_failed")
    /\ AddSpans(<< Span("interviewer", 0, "error") >>)
    /\ UNCHANGED << agentvars, statevars, events, title, save_sessions, returned_title,
                    completed, completion_order, validations, last_response, exc, registered,
                    roadmaps, semvars, final_status >>

(* submit_interview and run_pipeline *)

\* submit_interview finds the pipeline; run_pipeline runs up to the call of
\* the Architect
SubmitInterview ==
    /\ pc["run"] = "awaiting_answers"
    /\ registered
    /\ Emit("run", << Ev("stage_update", "architecting", 0) >>)
    /\ stage' = "architecting"
    /\ Goto("run", "architect_call")
    /\ UNCHANGED << agentvars, topic, suggested_title, confirmed_title, session_outline,
                    researched_sessions, validation_result, fix_attempt,
                    fix_history, roadmap_id, error_message, title,
                    save_sessions, returned_title, completed, completion_order, validations,
                    last_response, exc, registered, roadmaps, semvars, final_status, trace_spans >>

\* create_outline returned n sessions and title t
ArchitectReturns(n, t) ==
    /\ pc["run"] = "architect_call"
    /\ session_outline' = Some(Outline(n))
    /\ returned_title' = t
    /\ Goto("run", "architect_trace_save")
    /\ AddSpans(<< Span("architect", 0, "success") >>)
    /\ UNCHANGED << agentvars, stage, topic, suggested_title, confirmed_title,
                    researched_sessions, validation_result, fix_attempt,
                    fix_history, roadmap_id, error_message, events, title,
                    save_sessions, completed, completion_order, validations, last_response, exc,
                    registered, roadmaps, semvars, final_status >>

\* _run_architect returned; run_pipeline goes on to create the research tasks
ArchitectTraceSaved ==
    /\ pc["run"] = "architect_trace_save"
    /\ suggested_title' = Some(returned_title)
    /\ Emit("run", << Ev("title_suggestion", "", 0),
                      Ev("stage_complete", "architecting", Len(session_outline[1])),
                      Ev("stage_update", "researching", 0) >>)
    /\ stage' = "researching"
    /\ completed' = << >>
    /\ completion_order' = << >>
    /\ tasks' = [i \in 1..Len(session_outline[1]) |->
                    NewTask("research", 1, session_outline[1][i].id)]
    /\ Goto("run", "researching")
    /\ UNCHANGED << agentvars, topic, confirmed_title, session_outline, researched_sessions,
                    validation_result, fix_attempt, fix_history, roadmap_id,
                    error_message, title, save_sessions, returned_title,
                    validations, last_response, exc, registered, roadmaps,
                    semaphores, api_semaphore, final_status, trace_spans >>

\* a task of a fan-out gets the gate from get_api_semaphore() and enters
\* "async with semaphore"
TaskAcquire(i) ==
    /\ i \in 1..Len(tasks)
    /\ tasks[i].st = "created"
    /\ LET g == get_api_semaphore(semaphores, api_semaphore)
       IN /\ ~SemLocked(g.semaphores, g.sem)
          /\ semaphores' = SemAcquire(g.semaphores, g.sem)
          /\ api_semaphore' = g.api_semaphore
          /\ tasks' = [tasks EXCEPT ![i].st = "holding", ![i].sem = g.sem]
    /\ UNCHANGED << agentvars, statevars, runvars >>

\* the outline item a research task works on
OutlineItem(id) ==
    LET o == session_outline[1]
    IN o[CHOOSE i \in 1..Len(o) : o[i].id = id]

\* completed_count after "completed_count += 1", for the session just appended
CompletedCount_ByOrder(done, item) == item.order
CompletedCount(done, item) == Len(done) + 1

\* the session_progress event: {"completed": ..., "total": total_sessions}
ProgressEv(completed_count, total_sessions) ==
    [event |-> "session_progress", detail |-> "", n |-> completed_count,
     total |-> total_sessions]

\* a Researcher call returned; as_completed hands the result to the loop
ResearchTaskReturns(i) ==
    /\ i \in 1..Len(tasks)
    /\ tasks[i].kind = "research" /\ tasks[i].st = "holding"
    /\ semaphores' = SemRelease(semaphores, tasks[i].sem)
    /\ tasks' = [tasks EXCEPT ![i].st = "done"]
    /\ IF pc["run"] = "researching"
       THEN /\ completed' = Append(completed, Research(OutlineItem(tasks[i].id)))
            /\ completion_order' = Append(completion_order, OutlineItem(tasks[i].id).order)
            /\ Emit("run", << ProgressEv(CompletedCount(completed, OutlineItem(tasks[i].id)),
                                          Len(session_outline[1])) >>)
       ELSE UNCHANGED << completed, completion_order, events >>
    /\ UNCHANGED << agentvars, statevars, pc, title, save_sessions, returned_title,
                    validations, last_response, exc, registered, roadmaps,
                    api_semaphore, final_status, trace_spans >>

\* a Researcher call raised; the loop re-raises it into run_pipeline
ResearchTaskFails(i) ==
    /\ i \in 1..Len(tasks)
    /\ tasks[i].kind = "research" /\ tasks[i].st = "holding"
    /\ semaphores' = SemRelease(semaphores, tasks[i].sem)
    /\ tasks' = [tasks EXCEPT ![i].st = "failed"]
    /\ IF pc["run"] = "researching"
       THEN Raise("run", "research")
       ELSE UNCHANGED << stage, error_message, final_status, exc, pc >>
    /\ UNCHANGED << agentvars, topic, suggested_title, confirmed_title, session_outline,
                    researched_sessions, validation_result, fix_attempt,
                    fix_history, roadmap_id, events, title, save_sessions,
                    returned_title, completed, completion_order, validations, last_response,
                    registered, roadmaps, api_semaphore, trace_spans >>

\* every research task was consumed: sort, then await trace.save()
ResearchFanIn_FirstDone ==
    /\ pc["run"] = "researching"
    /\ \E i \in 1..Len(tasks) : tasks[i].st = "done"
    /\ completed' = SortByOrder(completed)
    /\ completion_order' = completion_order
    /\ Goto("run", "research_trace_save")
    /\ AddSpans(ResearchSpans(completed))
    /\ UNCHANGED << agentvars, statevars, events, title, save_sessions, returned_title,
                    validations, last_response, exc, registered, roadmaps, semvars, final_status >>
ResearchFanIn ==
    /\ pc["run"] = "researching"
    /\ \A i \in 1..Len(tasks) : tasks[i].st = "done"
    /\ completed' = SortByOrder(completed)
    /\ completion_order' = completion_order
    /\ Goto("run", "research_trace_save")
    /\ AddSpans(ResearchSpans(completed))
    /\ UNCHANGED << agentvars, statevars, events, title, save_sessions, returned_title,
                    validations, last_response, exc, registered, roadmaps, semvars, final_status >>

\* the list is written to the state; run_pipeline starts the video searches
ResearchTraceSaved ==
    /\ pc["run"] = "research_trace_save"
    /\ researched_sessions' = completed
    /\ Emit("run", << Ev("stage_complete", "researching", Len(completed)),
                      Ev("stage_update", "finding_videos", 0) >>)
    /\ tasks' = [i \in 1..Len(completed) |-> NewTask("video", 1, completed[i].outline_id)]
    /\ completion_order' = << >>
    /\ Goto("run", "finding_videos")
    /\ UNCHANGED << agentvars, stage, topic, suggested_title, confirmed_title,
                    session_outline, validation_result, fix_attempt, fix_history,
                    roadmap_id, error_message, title, save_sessions,
                    returned_title, completed, validations, last_response, exc,
                    registered, roadmaps, semaphores, api_semaphore, final_status, trace_spans >>

\* session.videos = v on the session object at position i: the write shows in
\* every list that holds the object
SetVideos(sessions, i, v) ==
    IF i \in 1..Len(sessions) THEN [sessions EXCEPT ![i].videos = v] ELSE sessions

\* proceed_after_review holds the list object run_pipeline is working on
ReviewSharesList == save_sessions["review"] # << >>

VideoWrite(i, v) ==
    /\ researched_sessions' = SetVideos(researched_sessions, i, v)
    /\ save_sessions' = IF ReviewSharesList
                        THEN [save_sessions EXCEPT !["review"] = SetVideos(@, i, v)]
                        ELSE save_sessions

\* find_videos returned v for the session of task i
VideoTaskReturns(i, v) ==
    /\ i \in 1..Len(tasks)
    /\ tasks[i].kind = "video" /\ tasks[i].st = "holding"
    /\ semaphores' = SemRelease(semaphores, tasks[i].sem)
    /\ tasks' = [tasks EXCEPT ![i].st = "done"]
    /\ VideoWrite(i, v)
    /\ UNCHANGED << agentvars, stage, topic, suggested_title, confirmed_title,
                    session_outline, validation_result, fix_attempt, fix_history,
                    roadmap_id, error_message, pc, events, title, returned_title,
                    completed, completion_order, validations, last_response, exc, registered,
                    roadmaps, api_semaphore, final_status, trace_spans >>

VideoTaskFails_Propagates(i) ==
    /\ i \in 1..Len(tasks)
    /\ tasks[i].kind = "video" /\ tasks[i].st = "holding"
    /\ semaphores' = SemRelease(semaphores, tasks[i].sem)
    /\ tasks' = [tasks EXCEPT ![i].st = "failed"]
    /\ Raise("run", "find_videos")
    /\ UNCHANGED << agentvars, topic, suggested_title, confirmed_title,
                    session_outline, researched_sessions, validation_result,
                    fix_attempt, fix_history, roadmap_id, events, title,
                    save_sessions, returned_title, completed, completion_order,
                    validations, last_response, registered, roadmaps,
                    api_semaphore, trace_spans >>
\* find_videos raised (st records the outcome of the agent call):
\* find_videos_for_session logs it and proceeds without videos
VideoTaskFails(i) ==
    /\ i \in 1..Len(tasks)
    /\ tasks[i].kind = "video" /\ tasks[i].st = "holding"
    /\ semaphores' = SemRelease(semaphores, tasks[i].sem)
    /\ tasks' = [tasks EXCEPT ![i].st = "failed"]
    /\ VideoWrite(i, << >>)
    /\ UNCHANGED << agentvars, stage, topic, suggested_title, confirmed_title,
                    session_outline, validation_result, fix_attempt, fix_history,
                    roadmap_id, error_message, pc, events, title, returned_title,
                    completed, completion_order, validations, last_response, exc, registered,
                    roadmaps, api_semaphore, final_status, trace_spans >>

\* asyncio.gather of the video searches returned; await trace.save()
VideosGathered ==
    /\ pc["run"] = "finding_videos"
    /\ \A i \in 1..Len(tasks) : Finished(tasks[i])
    /\ Goto("run", "videos_trace_save")
    /\ AddSpans(VideoSpans(tasks))
    /\ UNCHANGED << agentvars, statevars, events, title, save_sessions, returned_title,
                    completed, completion_order, validations, last_response, exc, registered,
                    roadmaps, semvars, final_status >>

\* _run_youtube_agent returned; run_pipeline calls the Validator
VideosTraceSaved ==
    /\ pc["run"] = "videos_trace_save"
    /\ Emit("run", << Ev("stage_complete", "finding_videos", 0),
                      Ev("stage_update", "validating", 0) >>)
    /\ stage' = "validating"
    /\ Goto("run", "validator_call")
    /\ UNCHANGED << agentvars, topic, suggested_title, confirmed_title, session_outline,
                    researched_sessions, validation_result, fix_attempt,
                    fix_history, roadmap_id, error_message, title,
                    save_sessions, returned_title, completed, completion_order, validations,
                    last_response, exc, registered, roadmaps, semvars, final_status, trace_spans >>

\* the Validator model answered and validate built the result
ValidatorReturns(response) ==
    /\ pc["run"] = "validator_call"
    /\ ~ValidateRaises(response, researched_sessions)
    /\ validation_result' = Some(Validate(response, researched_sessions))
    /\ validations' = Append(validations, Validate(response, researched_sessions).is_valid)
    /\ last_response' = Some(response)
    /\ Goto("run", "validator_trace_save")
    /\ AddSpans(<< Span("validator", 0, "success") >>)
    /\ UNCHANGED << agentvars, stage, topic, suggested_title, confirmed_title,
                    session_outline, researched_sessions, fix_attempt,
                    fix_history, roadmap_id, error_message, events, title,
                    save_sessions, returned_title, completed, completion_order, exc, registered,
                    roadmaps, semvars, final_status >>

\* the Validator model answered and validate raised IndexError on an index
ValidatorRaises(response) ==
    /\ pc["run"] = "validator_call"
    /\ ValidateRaises(response, researched_sessions)
    /\ last_response' = Some(response)
    /\ Raise("run", "IndexError")
    /\ AddSpans(<< Span("validator", 0, "error") >>)
    /\ UNCHANGED << agentvars, topic, suggested_title, confirmed_title, session_outline,
                    researched_sessions, validation_result, fix_attempt,
                    fix_history, roadmap_id, events, title, save_sessions,
                    returned_title, completed, completion_order, validations, registered,
                    roadmaps, semvars >>

\* the condition of the auto-fix loop
LoopCondition_IgnoresValidity(result, attempt) == attempt < max_fix_attempts
LoopCondition_OneMore(result, attempt) == ~result.is_valid /\ attempt <= max_fix_attempts
LoopCondition(result, attempt) == ~result.is_valid /\ attempt < max_fix_attempts

\* the loop is entered: _run_editor up to the gather of the edit tasks
LoopEntersEditor ==
    /\ pc["run"] = "validator_trace_save"
    /\ LoopCondition(validation_result[1], fix_attempt)
    /\ Emit("run", << Ev("stage_update", "validating", fix_attempt + 1) >>)
    /\ fix_attempt' = fix_attempt + 1
    /\ stage' = "revising"
    /\ fix_history' = Append(fix_history, FixRecord(fix_attempt + 1, validation_result[1]))
    /\ tasks' = LET keys == IssueSessionKeys(validation_result[1].issues)
                IN [k \in 1..Len(keys) |-> NewTask("edit", 1, keys[k])]
    /\ Goto("run", "revising")
    /\ UNCHANGED << agentvars, topic, suggested_title, confirmed_title, session_outline,
                    researched_sessions, validation_result, roadmap_id,
                    error_message, title, save_sessions, returned_title,
                    completed, completion_order, validations, last_response, exc, registered,
                    roadmaps, semaphores, api_semaphore, final_status, trace_spans >>

\* an Editor call returned the edited session
EditTaskReturns(k) ==
    /\ k \in 1..Len(tasks)
    /\ tasks[k].kind = "edit" /\ tasks[k].st = "holding"
    /\ semaphores' = SemRelease(semaphores, tasks[k].sem)
    /\ tasks' = [tasks EXCEPT ![k].st = "done",
                              ![k].out = Some(Edit(SessionById(researched_sessions, tasks[k].id)))]
    /\ UNCHANGED << agentvars, statevars, runvars, api_semaphore >>

\* an Editor call raised
EditTaskFails(k) ==
    /\ k \in 1..Len(tasks)
    /\ tasks[k].kind = "edit" /\ tasks[k].st = "holding"
    /\ semaphores' = SemRelease(semaphores, tasks[k].sem)
    /\ tasks' = [tasks EXCEPT ![k].st = "failed"]
    /\ UNCHANGED << agentvars, statevars, runvars, api_semaphore >>

\* values of edited_sessions_map
EditedSessions == Concat([k \in 1..Len(tasks) |-> tasks[k].out])

\* gather returned and no result is an exception: replace, sort, await trace.save()
EditorFanIn ==
    /\ pc["run"] = "revising"
    /\ \A k \in 1..Len(tasks) : tasks[k].st = "done"
    /\ completed' = SortByOrder(ReplaceEdited(researched_sessions, EditedSessions))
    /\ completion_order' = completion_order
    /\ Goto("run", "editor_trace_save")
    /\ AddSpans(EditSpans(tasks))
    /\ UNCHANGED << agentvars, statevars, events, title, save_sessions, returned_title,
                    validations, last_response, exc, registered, roadmaps, semvars, final_status >>

\* gather returned and a result is an exception: it is raised
EditorFanInRaises_WritesEdited ==
    /\ pc["run"] = "revising"
    /\ \A k \in 1..Len(tasks) : Finished(tasks[k])
    /\ \E k \in 1..Len(tasks) : tasks[k].st = "failed"
    /\ Raise("run", "edit")
    /\ researched_sessions' = SortByOrder(ReplaceEdited(researched_sessions, EditedSessions))
    /\ UNCHANGED << agentvars, topic, suggested_title, confirmed_title, session_outline,
                    validation_result, fix_attempt,
                    fix_history, roadmap_id, events, title, save_sessions,
                    returned_title, completed, completion_order, validations, last_response,
                    registered, roadmaps, semvars, trace_spans >>
EditorFanInRaises ==
    /\ pc["run"] = "revising"
    /\ \A k \in 1..Len(tasks) : Finished(tasks[k])
    /\ \E k \in 1..Len(tasks) : tasks[k].st = "failed"
    /\ Raise("run", "edit")
    /\ UNCHANGED << agentvars, topic, suggested_title, confirmed_title, session_outline,
                    researched_sessions, validation_result, fix_attempt,
                    fix_history, roadmap_id, events, title, save_sessions,
                    returned_title, completed, completion_order, validations, last_response,
                    registered, roadmaps, semvars, trace_spans >>

\* _run_editor returned: the list is written to the state and validated again
EditorTraceSaved ==
    /\ pc["run"] = "editor_trace_save"
    /\ researched_sessions' = completed
    /\ Emit("run", << Ev("stage_update", "validating", 0) >>)
    /\ stage' = "validating"
    /\ Goto("run", "validator_call")
    /\ UNCHANGED << agentvars, topic, suggested_title, confirmed_title, session_outline,
                    validation_result, fix_attempt, fix_history, roadmap_id,
                    error_message, title, save_sessions, returned_title,
                    completed, completion_order, validations, last_response, exc, registered,
                    roadmaps, semvars, final_status, trace_spans >>

(* _save_roadmap, called by run_pipeline and by proceed_after_review *)

\* _save_roadmap up to the await of roadmap.insert()
SaveBegin(who, sessions) ==
    /\ stage' = "saving"
    /\ title' = [title EXCEPT ![who] = ResolveTitle(confirmed_title, suggested_title, topic)]
    /\ save_sessions' = [save_sessions EXCEPT ![who] = sessions]
    /\ Goto(who, "roadmap_insert")

\* the loop is left: the final result is stored and the roadmap is saved
LoopExitsToSave ==
    /\ pc["run"] = "validator_trace_save"
    /\ ~LoopCondition(validation_result[1], fix_attempt)
    /\ Emit("run", << Ev("stage_complete", "validating", validation_result[1].overall_score),
                      Ev("stage_update", "saving", 0) >>)
    /\ SaveBegin("run", researched_sessions)
    /\ UNCHANGED << agentvars, topic, suggested_title, confirmed_title, session_outline, researched_sessions,
                    validation_result, fix_attempt, fix_history, roadmap_id,
                    error_message, returned_title, completed, completion_order, validations,
                    last_response, exc, registered, roadmaps, semvars, final_status, trace_spans >>

\* the Roadmap document of this caller
RoadmapOf(who) == CHOOSE r \in 1..Len(roadmaps) : roadmaps[r].by = who

\* roadmap.insert() returned
RoadmapInserted(who) ==
    /\ pc[who] = "roadmap_insert"
    /\ roadmaps' = Append(roadmaps, [by |-> who, title |-> title[who],
                                     docs |-> << >>, sessions |-> << >>])
    /\ Goto(who, "save_trace_save")
    /\ UNCHANGED << agentvars, statevars, events, title, save_sessions, returned_title,
                    completed, completion_order, validations, last_response, exc, registered, semvars, final_status, trace_spans >>

\* trace.save() returned; the loop over the sessions starts
SaveTraceSaved(who) ==
    /\ pc[who] = "save_trace_save"
    /\ Goto(who, IF save_sessions[who] = << >> THEN "roadmap_save" ELSE "session_insert")
    /\ UNCHANGED << agentvars, statevars, events, title, save_sessions, returned_title,
                    completed, completion_order, validations, last_response, exc, registered,
                    roadmaps, semvars, final_status, trace_spans >>

\* session.insert() returned for the next session of the list
SessionInserted(who) ==
    /\ pc[who] = "session_insert"
    /\ LET r == RoadmapOf(who)
           k == Len(roadmaps[r].docs) + 1
           rs == save_sessions[who][k]
       IN /\ roadmaps' = [roadmaps EXCEPT ![r].docs =
                            Append(@, [order |-> rs.order, content |-> rs.content,
                                       videos |-> rs.videos])]
          /\ Goto(who, IF k = Len(save_sessions[who]) THEN "roadmap_save" ELSE "session_insert")
    /\ UNCHANGED << agentvars, statevars, events, title, save_sessions, returned_title,
                    completed, completion_order, validations, last_response, exc, registered, semvars, final_status, trace_spans >>

\* roadmap.save() returned; _save_roadmap returns and the caller sets COMPLETE
RoadmapSaved(who) ==
    /\ pc[who] = "roadmap_save"
    /\ LET r == RoadmapOf(who)
       IN /\ roadmaps' = [roadmaps EXCEPT ![r].sessions =
                            [k \in 1..Len(roadmaps[r].docs) |-> roadmaps[r].docs[k].order]]
          /\ roadmap_id' = Some(r)
    /\ stage' = "complete"
    /\ final_status' = "success"
    /\ Goto(who, "complete_trace_save")
    /\ UNCHANGED << agentvars, topic, suggested_title, confirmed_title, session_outline,
                    researched_sessions, validation_result, fix_attempt,
                    fix_history, error_message, events, title, save_sessions,
                    returned_title, completed, completion_order, validations, last_response, exc,
                    registered, semvars, trace_spans >>

\* trace.save() returned; the complete event is yielded and the generator ends
CompleteTraceSaved(who) ==
    /\ pc[who] = "complete_trace_save"
    /\ Emit(who, << Ev("complete", "", RoadmapOf(who)) >>)
    /\ Goto(who, "ended")
    /\ RouterFinally(who, stage)
    /\ UNCHANGED << agentvars, statevars, title, save_sessions, returned_title, completed, completion_order,
                    validations, last_response, exc, roadmaps, semvars, final_status, trace_spans >>

(* submit_review and proceed_after_review *)

\* submit_review finds the pipeline; proceed_after_review runs up to its
\* first yield
SubmitReview(ct) ==
    /\ pc["review"] = "none"
    /\ registered
    /\ confirmed_title' = IF Truthy(ct) THEN ct ELSE confirmed_title
    /\ Emit("review", << Ev("stage_update", "saving", 0) >>)
    /\ Goto("review", "save_begin")
    /\ UNCHANGED << agentvars, stage, topic, suggested_title, session_outline,
                    researched_sessions, validation_result, fix_attempt,
                    fix_history, roadmap_id, error_message, title,
                    save_sessions, returned_title, completed, completion_order, validations,
                    last_response, exc, registered, roadmaps, semvars, final_status, trace_spans >>

\* _save_roadmap(state.session_outline, state.researched_sessions) is entered
ReviewSaveBegin ==
    /\ pc["review"] = "save_begin"
    /\ session_outline # None
    /\ SaveBegin("review", researched_sessions)
    /\ UNCHANGED << agentvars, topic, suggested_title, confirmed_title, session_outline, researched_sessions,
                    validation_result, fix_attempt, fix_history, roadmap_id,
                    error_message, events, returned_title, completed, completion_order,
                    validations, last_response, exc, registered, roadmaps, semvars, final_status, trace_spans >>

\* the same with no outline yet: outline.learning_path_summary raises
ReviewSaveRaises ==
    /\ pc["review"] = "save_begin"
    /\ session_outline = None
    /\ title' = [title EXCEPT !["review"] = ResolveTitle(confirmed_title, suggested_title, topic)]
    /\ Raise("review", "AttributeError")
    /\ UNCHANGED << agentvars, topic, suggested_title, confirmed_title, session_outline,
                    researched_sessions, validation_result, fix_attempt,
                    fix_history, roadmap_id, events, save_sessions,
                    returned_title, completed, completion_order, validations, last_response,
                    registered, roadmaps, semvars, trace_spans >>

----------------------------------------------------------------------------
(* Specification of one pipeline: start_creation, submit_interview with
   run_pipeline, and a submit_review request arriving at any moment the
   pipeline is registered *)

AgentsIdle ==
    /\ yt = << >>
    /\ fv = << >>
    /\ ed = << >>
    /\ nr = << >>

OtherIdle ==
    /\ gs = << >>
    /\ arch = << >>
    /\ AgentsIdle

Init == PipelineInit /\ SemInit /\ OtherIdle

StartCreation ==
    \/ GenerateInterviewQuestions
    \/ InterviewerReturns
    \/ InterviewerFails

\* run_pipeline for outlines of at most maxN sessions and the given answers
\* of the Validator model
RunPipeline(maxN, responses) ==
    \/ SubmitInterview
    \/ \E n \in 0..maxN, t \in ArchitectTitles : ArchitectReturns(n, t)
    \/ ArchitectTraceSaved
    \/ ResearchFanIn
    \/ ResearchTraceSaved
    \/ VideosGathered
    \/ VideosTraceSaved
    \/ \E r \in responses : ValidatorReturns(r)
    \/ \E r \in responses : ValidatorRaises(r)
    \/ LoopEntersEditor
    \/ EditorFanIn
    \/ EditorFanInRaises
    \/ EditorTraceSaved
    \/ LoopExitsToSave

FanOutTasks(maxN, videoLists) ==
    \/ \E i \in 1..maxN : TaskAcquire(i)
    \/ \E i \in 1..maxN : ResearchTaskReturns(i)
    \/ \E i \in 1..maxN : ResearchTaskFails(i)
    \/ \E i \in 1..maxN, v \in videoLists : VideoTaskReturns(i, v)
    \/ \E i \in 1..maxN : VideoTaskFails(i)
    \/ \E i \in 1..maxN : EditTaskReturns(i)
    \/ \E i \in 1..maxN : EditTaskFails(i)

SaveRoadmap(who) ==
    \/ RoadmapInserted(who)
    \/ SaveTraceSaved(who)
    \/ SessionInserted(who)
    \/ RoadmapSaved(who)
    \/ CompleteTraceSaved(who)

ErrorHandling(who) ==
    \/ AwaitFails(who)
    \/ ErrorTraceSaved(who)
    \/ ErrorTraceSaveFails(who)

ProceedAfterReview ==
    \/ \E ct \in ConfirmedTitles : SubmitReview(ct)
    \/ ReviewSaveBegin
    \/ ReviewSaveRaises

\* one pipeline run: start_creation, then submit_interview with run_pipeline
Next ==
    \/ StartCreation
    \/ RunPipeline(MaxSessions, ValidatorResponses)
    \/ FanOutTasks(MaxSessions, VideoLists)
    \/ SaveRoadmap("run")
    \/ ErrorHandling("run")

Spec == Init /\ [][Next]_vars

\* answers of the Validator model tried together with a review request
ReviewValidatorResponses ==
    { VResponse(TRUE, << >>, 88),
      VResponse(TRUE, << RawIssue("gap", "high", << 0 >>) >>, 90),
      VResponse(TRUE, << RawIssue("coherence", "medium", << 0 - (MaxSessions + 1) >>) >>, 70) }

\* the same run with a submit_review request arriving at any moment the
\* pipeline is registered
NextReview ==
    \/ StartCreation
    \/ RunPipeline(MaxReviewSessions, ReviewValidatorResponses)
    \/ FanOutTasks(MaxReviewSessions, {<< "v" >>})
    \/ SaveRoadmap("run")
    \/ ErrorHandling("run")
    \/ ProceedAfterReview
    \/ SaveRoadmap("review")
    \/ ErrorHandling("review")

\* the topic is one that the title rule truncates
InitReview == Init /\ Len(topic) > TitleLimit

SpecReview == InitReview /\ [][NextReview]_vars

----------------------------------------------------------------------------
(* Properties of one run (Spec) *)

\* run_pipeline returned after its complete event
RunCompleted == pc["run"] = "ended" /\ exc["run"] = ""

\* every Validator result of the run so far was invalid
AlwaysInvalid == \A i \in 1..Len(validations) : ~validations[i]

SavePcs == {"roadmap_insert", "save_trace_save", "session_insert", "roadmap_save",
            "complete_trace_save"}

\* number of events of a kind in a stream
CountEvents(who, kind) ==
    Cardinality({ i \in 1..Len(events[who]) : events[who][i].event = kind })

\* the "Improving content quality (attempt n/2)" events: one per Editor stage
EditorStages ==
    Cardinality({ i \in 1..Len(events["run"]) :
                    /\ events["run"][i].event = "stage_update"
                    /\ events["run"][i].detail = "validating"
                    /\ events["run"][i].n > 0 })

\* C1: when every Validator result is invalid and no call fails, the run
\* reaches the save only after exactly 2 Editor stages (fix_attempt = 2) and
\* exactly 3 Validator calls, never a third Editor stage, and then saves the
\* roadmap and ends in stage complete with a final result that is not valid.
C1_BudgetOfTwo ==
    /\ fix_attempt <= 2 /\ EditorStages <= 2 /\ Len(validations) <= 3
    /\ (AlwaysInvalid /\ pc["run"] \in SavePcs)
          => /\ fix_attempt = 2 /\ EditorStages = 2 /\ Len(fix_history) = 2
             /\ Len(validations) = 3
             /\ ~validation_result[1].is_valid
    /\ (AlwaysInvalid /\ RunCompleted)
          => /\ fix_attempt = 2 /\ EditorStages = 2 /\ Len(validations) = 3
             /\ stage = "complete"
             /\ \E r \in 1..Len(roadmaps) : roadmaps[r].by = "run"
             /\ CountEvents("run", "complete") = 1
             /\ ~validation_result[1].is_valid

C1_Witness ==
    /\ RunCompleted /\ AlwaysInvalid
    /\ Len(validations) = 3 /\ fix_attempt = 2
    /\ stage = "complete"

\* C2: the result of validate is valid exactly when none of its issues has
\* severity "high" (no issue at all is valid), whatever is_valid the model
\* reported; and is_valid alone decides the loop: an Editor stage runs only on
\* an invalid result, whatever its score.
C2_HighSeverityDecides ==
    /\ validation_result # None =>
          (validation_result[1].is_valid
              <=> \A i \in 1..Len(validation_result[1].issues) :
                      validation_result[1].issues[i].severity # "high")
    /\ pc["run"] = "validator_trace_save" =>
          (validation_result[1].is_valid
              <=> \A i \in 1..Len(last_response[1].issues) :
                      last_response[1].issues[i].severity \notin {"high", "HIGH"})
    /\ pc["run"] \in {"revising", "editor_trace_save"} => ~validation_result[1].is_valid

\* the model reported is_valid with a score of 90 and one high issue: the
\* result is invalid and the Editor runs
C2_Witness ==
    /\ pc["run"] = "revising"
    /\ ~validation_result[1].is_valid
    /\ last_response[1].is_valid
    /\ last_response[1].overall_score = 90

\* C4: an exception raised in run_pipeline is caught once: the stage is error
\* and error_message is the text of the exception; the stream gets exactly one
\* error event, as its last event, and no complete event.
C4_CaughtOnce ==
    /\ exc["run"] # "" =>
          /\ stage = "error"
          /\ error_message = Some(exc["run"])
          /\ CountEvents("run", "complete") = 0
          /\ pc["run"] \in {"error_trace_save", "ended"}
    /\ (exc["run"] # "" /\ pc["run"] = "error_trace_save")
          => CountEvents("run", "error") = 0
    /\ (exc["run"] # "" /\ pc["run"] = "ended")
          => /\ CountEvents("run", "error") = 1
             /\ events["run"][Len(events["run"])].event = "error"
    /\ exc["run"] = "" => CountEvents("run", "error") = 0

\* an Editor call raised in the second Editor stage and the stream has ended
C4_Witness ==
    /\ exc["run"] = "edit"
    /\ pc["run"] = "ended"
    /\ fix_attempt = 2
    /\ events["run"][Len(events["run"])].event = "error"

\* the list holds exactly one session per outline item, matched by outline_id
OneToOne(sessions, outline) ==
    /\ Len(sessions) = Len(outline)
    /\ \A k \in 1..Len(outline) :
          Cardinality({ i \in 1..Len(sessions) :
                          sessions[i].outline_id = outline[k].id }) = 1
    /\ \A i \in 1..Len(sessions) :
          \E k \in 1..Len(outline) : sessions[i].outline_id = outline[k].id

\* the research fan-in has written its list and the run has not failed
AfterResearchFanIn ==
    \/ pc["run"] \in {"finding_videos", "videos_trace_save", "validator_call",
                      "validator_trace_save", "revising", "editor_trace_save"}
    \/ pc["run"] \in SavePcs
    \/ RunCompleted

\* C6: once the research fan-in has stored its list, researched_sessions has
\* exactly one session per outline item, matched by outline_id; the list every
\* Editor stage returns has it too.
C6_OneToOne ==
    /\ (AfterResearchFanIn \/ researched_sessions # << >>)
          => OneToOne(researched_sessions, session_outline[1])
    /\ pc["run"] = "editor_trace_save" => OneToOne(completed, session_outline[1])

\* both sessions were edited and the list of the second Editor stage is stored
C6_Witness ==
    /\ pc["run"] = "validator_call"
    /\ fix_attempt = 2
    /\ Len(researched_sessions) = 2
    /\ \A i \in 1..2 : researched_sessions[i].content >= 1

\* the list is sorted by order and the orders are 1..N
OrdersAreOneToN(sessions) == \A i \in 1..Len(sessions) : sessions[i].order = i

\* C7: whatever the order the research tasks complete in, the list of the
\* research fan-in is sorted by order with the orders exactly 1..N for an
\* outline of N items; so are the list each Editor stage returns and the list
\* during and after the video stage.
C7_SortedByOrder ==
    /\ OrdersAreOneToN(researched_sessions)
    /\ AfterResearchFanIn => Len(researched_sessions) = Len(session_outline[1])
    /\ pc["run"] \in {"research_trace_save", "editor_trace_save"}
          => /\ OrdersAreOneToN(completed)
             /\ Len(completed) = Len(session_outline[1])

\* the second session was researched first and the list starts with order 1
C7_Witness ==
    /\ pc["run"] = "research_trace_save"
    /\ completion_order = << 2, 1 >>
    /\ completed[1].order = 1 /\ completed[2].order = 2

\* the video searches whose find_videos raises in this step
VideoSearchFailing ==
    { i \in 1..Len(tasks) :
        /\ tasks[i].kind = "video"
        /\ tasks[i].st = "holding"
        /\ i \in 1..Len(tasks') /\ tasks'[i].st = "failed" }

\* C13: an exception raised while finding the videos of one session leaves
\* that session with an empty video list and every other session as it was,
\* and the pipeline does not go to error: stage, position and error message
\* stay, and once every search is over the run goes on to the Validator.
C13_FailedSearchEmptyList ==
    /\ [][\A i \in VideoSearchFailing :
             /\ researched_sessions'[i].videos = << >>
             /\ \A j \in 1..Len(researched_sessions) :
                    j # i => researched_sessions'[j] = researched_sessions[j]
             /\ Len(researched_sessions') = Len(researched_sessions)
             /\ stage' = stage /\ pc' = pc /\ exc' = exc
             /\ error_message' = error_message]_vars
    /\ [](/\ pc["run"] = "finding_videos"
          /\ \A i \in 1..Len(tasks) : Finished(tasks[i])
          => ENABLED VideosGathered)

\* the search of the first session raised, the search of the second returned a
\* video, and the run is at the Validator call
C13_Witness ==
    /\ pc["run"] = "validator_call"
    /\ stage = "validating"
    /\ validations = << >>
    /\ Len(tasks) = 2
    /\ tasks[1].kind = "video" /\ tasks[1].st = "failed"
    /\ tasks[2].kind = "video" /\ tasks[2].st = "done"
    /\ researched_sessions[1].videos = << >>
    /\ researched_sessions[2].videos = << "v" >>

\* the session ids some issue of the current validation result names
AffectedSessionIds ==
    IF validation_result = None THEN { }
    ELSE LET issues == validation_result[1].issues
         IN { id \in { researched_sessions[i].outline_id : i \in 1..Len(researched_sessions) } :
                \E i \in 1..Len(issues) :
                   \E k \in 1..Len(issues[i].affected_session_ids) :
                      issues[i].affected_session_ids[k] = id }

\* C18: an Editor stage runs one Editor call per distinct session id that
\* some issue names, no call for any other session and no second call for
\* the same session; the list it produces has as many sessions as before,
\* the named sessions replaced by their Editor results and every other
\* session as it was.
C18_OneEditPerAffectedSession ==
    /\ pc["run"] = "revising" =>
          /\ Len(tasks) = Cardinality(AffectedSessionIds)
          /\ \A k \in 1..Len(tasks) :
                /\ tasks[k].kind = "edit"
                /\ tasks[k].id \in AffectedSessionIds
                /\ \A h \in 1..Len(tasks) : h # k => tasks[h].id # tasks[k].id
    /\ pc["run"] = "editor_trace_save" =>
          /\ Len(completed) = Len(researched_sessions)
          /\ \A i \in 1..Len(researched_sessions) :
                LET before == researched_sessions[i]
                IN \E j \in 1..Len(completed) :
                      /\ completed[j].outline_id = before.outline_id
                      /\ IF before.outline_id \in AffectedSessionIds
                         THEN \E k \in 1..Len(tasks) :
                                 /\ tasks[k].id = before.outline_id
                                 /\ completed[j] = tasks[k].out[1]
                                 /\ completed[j].content = before.content + 1
                         ELSE completed[j] = before

\* two issues named the second session, one of them the first as well: two
\* Editor calls, both sessions replaced
C18_Witness ==
    /\ pc["run"] = "editor_trace_save"
    /\ last_response = Some(VResponse(FALSE, << RawIssue("GAP", "HIGH", << 1, 0 >>),
                                                RawIssue("overlap", "low", << 1 >>) >>, 40))
    /\ Len(tasks) = 2
    /\ Len(completed) = 2
    /\ completed[1].content = researched_sessions[1].content + 1
    /\ completed[2].content = researched_sessions[2].content + 1

\* one issue named the first session only: it is replaced, the second stays
C18_WitnessOther ==
    /\ pc["run"] = "editor_trace_save"
    /\ Len(tasks) = 1
    /\ Len(completed) = 2
    /\ completed[1].content = researched_sessions[1].content + 1
    /\ completed[2] = researched_sessions[2]


----------------------------------------------------------------------------
(* Properties of a run with a review request (SpecReview) *)

\* the steps of stage the state machine allows
StageOrder ==
    { << "initialized", "interviewing" >>, << "interviewing", "architecting" >>,
      << "architecting", "researching" >>, << "researching", "validating" >>,
      << "validating", "revising" >>, << "revising", "validating" >>,
      << "validating", "saving" >>, << "saving", "complete" >> }

StageStepAllowed ==
    \/ stage' = stage
    \/ << stage, stage' >> \in StageOrder
    \/ stage' = "error" /\ stage # "complete"

\* C3: stage starts at initialized and every change of stage is a step of
\* initialized, interviewing, architecting, researching, validating,
\* (revising, validating)*, saving, complete, or a step to error.
C3_StageOrder == stage = "initialized" /\ [][StageStepAllowed]_vars

\* a title is the topic cut to 100 characters
IsTruncatedTopic(t) ==
    /\ Len(t) = (IF Len(topic) < 100 THEN Len(topic) ELSE 100)
    /\ \A i \in 1..Len(t) : t[i] = topic[i]

\* _save_roadmap of this caller resolves the title in this step
TitleResolved(who) == pc[who] # "roadmap_insert" /\ pc'[who] = "roadmap_insert"

\* C10 as stated: a title that is set (not None) wins, in the order confirmed,
\* suggested, truncated topic.
C10_SetTitleWins ==
    [][\A who \in Who : TitleResolved(who) =>
          IF confirmed_title # None THEN title'[who] = confirmed_title[1]
          ELSE IF suggested_title # None THEN title'[who] = suggested_title[1]
          ELSE IsTruncatedTopic(title'[who])]_vars

\* C10, amended: at save time the title is confirmed_title when that is a
\* non-empty string, otherwise suggested_title when that is a non-empty string,
\* otherwise the topic cut to 100 characters; only the values at save time
\* count, not the order they were written in; the saved roadmap has this title.
C10_NonEmptyTitleWins ==
    [][\A who \in Who :
          /\ TitleResolved(who) =>
                IF confirmed_title # None /\ confirmed_title[1] # << >>
                THEN title'[who] = confirmed_title[1]
                ELSE IF suggested_title # None /\ suggested_title[1] # << >>
                THEN title'[who] = suggested_title[1]
                ELSE IsTruncatedTopic(title'[who])
          /\ (pc[who] = "roadmap_insert" /\ pc'[who] = "save_trace_save")
                => roadmaps'[Len(roadmaps')].title = title[who]]_vars

\* the review request wrote confirmed_title before the Architect wrote
\* suggested_title, and the run saves under the confirmed title
C10_Witness ==
    /\ exc["review"] = "AttributeError"
    /\ confirmed_title = Some(<< "A" >>)
    /\ suggested_title = Some(<< "B" >>)
    /\ \E r \in 1..Len(roadmaps) : roadmaps[r].by = "run" /\ roadmaps[r].title = << "A" >>


----------------------------------------------------------------------------
(* The admission gate under the tasks of several runs (SpecGate) *)

\* the pipeline variables of a run that is not looked at
PipelineParked == PipelineInit /\ Len(topic) < TitleLimit

\* number of fan-out tasks alive in the process
MaxGateTasks == 6

\* the tasks of two runs: researcher, video-finder and editor tasks
GateKind(i) == IF i % 3 = 1 THEN "research" ELSE IF i % 3 = 2 THEN "video" ELSE "edit"
GateTasks == [i \in 1..MaxGateTasks |-> NewTask(GateKind(i), 1 + (i % 2), i)]

\* the "async with semaphore" block of a task is left, by return or by raise
TaskLeaves(i) ==
    /\ i \in 1..Len(tasks)
    /\ tasks[i].st = "holding"
    /\ semaphores' = SemRelease(semaphores, tasks[i].sem)
    /\ tasks' = [tasks EXCEPT ![i].st = "done"]
    /\ UNCHANGED << agentvars, statevars, runvars, api_semaphore >>

InitGate ==
    /\ PipelineParked
    /\ tasks = GateTasks
    /\ semaphores = << >>
    /\ api_semaphore = None
    /\ OtherIdle

NextGate ==
    \/ \E i \in 1..MaxGateTasks : TaskAcquire(i)
    \/ \E i \in 1..MaxGateTasks : TaskLeaves(i)

SpecGate == InitGate /\ [][NextGate]_vars

\* the tasks inside "async with semaphore"
Holders == { i \in 1..Len(tasks) : tasks[i].st = "holding" }

\* C8: at every moment at most MAX_CONCURRENT_API_CALLS (5) researcher,
\* video-finder and editor tasks hold the gate, over the tasks of all runs and
\* however many tasks there are; get_api_semaphore creates one gate on first
\* use and every later call returns that same gate.
C8_GateBound ==
    /\ Cardinality(Holders) <= MAX_CONCURRENT_API_CALLS
    /\ Cardinality(Holders) <= 5
    /\ Len(semaphores) <= 1
    /\ api_semaphore = None <=> semaphores = << >>
    /\ \A i \in 1..Len(tasks) :
          tasks[i].st # "created" => Some(tasks[i].sem) = api_semaphore
    /\ semaphores # << >> =>
          semaphores[1] = MAX_CONCURRENT_API_CALLS - Cardinality(Holders)

\* five tasks of both runs and of the three kinds hold the gate and a sixth
\* one waits for it
C8_Witness ==
    /\ Cardinality(Holders) = 5
    /\ \E i \in 1..Len(tasks) : tasks[i].st = "created"
    /\ { tasks[i].run : i \in Holders } = {1, 2}
    /\ { tasks[i].kind : i \in Holders } = {"research", "video", "edit"}
    /\ SemLocked(semaphores, api_semaphore[1])


----------------------------------------------------------------------------
(* BaseAgent.generate_structured (SpecGen) *)

\* the default of the max_retries parameter
default_max_retries == 2

\* largest max_retries a caller passes
MaxRetriesTried == 3

\* max_retries arguments: absent, or a number
RetryArguments == { None } \cup { Some(m) : m \in 0..MaxRetriesTried }

\* what an attempt can raise inside the try that the except clause catches:
\* model_validate_json and model_validate raise ValidationError (a ValueError),
\* json.loads of the legacy path raises JSONDecodeError, the call itself may
\* raise a ValueError
CaughtErrors(use_schema_output) ==
    IF use_schema_output THEN {"ValidationError", "ValueError"}
    ELSE {"JSONDecodeError", "ValidationError", "ValueError"}

\* an exception the except clause does not catch
UncaughtErrors == {"ConnectionError"}

Attempts_OneLess(max_retries) == max_retries
\* range(max_retries + 1)
Attempts(max_retries) == max_retries + 1

\* prompts given to the call
Prompts == {"prompt_a", "prompt_b"}

\* each attempt passes the prompt argument of the call, which is never assigned
PromptSent(g) == g.prompt

\* the call is entered
GenerateStructured(prompt, given, use_schema_output) ==
    [st |-> "running",
     prompt |-> prompt,
     sent |-> << >>,
     max_retries |-> IF given = None THEN default_max_retries ELSE given[1],
     defaulted |-> given = None,
     use_schema_output |-> use_schema_output,
     attempt |-> 0,
     calls |-> 0,
     errors |-> << >>,
     last_error |-> None,
     error_type |-> "",
     error_attempts |-> 0,
     error_last |-> None]

\* an attempt returns the parsed model
AttemptParses ==
    /\ gs.st = "running"
    /\ gs.attempt < Attempts(gs.max_retries)
    /\ gs' = [gs EXCEPT !.st = "returned", !.calls = @ + 1,
                        !.sent = Append(@, PromptSent(gs))]
    /\ UNCHANGED << statevars, runvars, semvars, arch, yt, fv, ed, nr, client >>

\* an attempt raises JSONDecodeError or ValueError: last_error = e, next attempt
AttemptFailsParsing(e) ==
    /\ gs.st = "running"
    /\ gs.attempt < Attempts(gs.max_retries)
    /\ e \in CaughtErrors(gs.use_schema_output)
    /\ gs' = [gs EXCEPT !.calls = @ + 1,
                        !.sent = Append(@, PromptSent(gs)),
                        !.errors = Append(@, e),
                        !.last_error = Some(e),
                        !.attempt = @ + 1]
    /\ UNCHANGED << statevars, runvars, semvars, arch, yt, fv, ed, nr, client >>

AttemptRaises_Retried(e) ==
    /\ gs.st = "running"
    /\ gs.attempt < Attempts(gs.max_retries)
    /\ gs' = [gs EXCEPT !.calls = @ + 1,
                        !.sent = Append(@, PromptSent(gs)),
                        !.errors = Append(@, e),
                        !.last_error = Some(e),
                        !.attempt = @ + 1]
    /\ UNCHANGED << statevars, runvars, semvars, arch, yt, fv, ed, nr, client >>

\* an attempt raises something else: it leaves generate_structured
AttemptRaises(e) ==
    /\ gs.st = "running"
    /\ gs.attempt < Attempts(gs.max_retries)
    /\ gs' = [gs EXCEPT !.st = "raised", !.calls = @ + 1,
                        !.sent = Append(@, PromptSent(gs)),
                        !.error_type = e]
    /\ UNCHANGED << statevars, runvars, semvars, arch, yt, fv, ed, nr, client >>

\* the loop is over: raise ValueError(f"Failed after {max_retries + 1} attempts: {last_error}")
Exhausted ==
    /\ gs.st = "running"
    /\ gs.attempt >= Attempts(gs.max_retries)
    /\ gs' = [gs EXCEPT !.st = "raised",
                        !.error_type = "ValueError",
                        !.error_attempts = gs.max_retries + 1,
                        !.error_last = gs.last_error]
    /\ UNCHANGED << statevars, runvars, semvars, arch, yt, fv, ed, nr, client >>

InitGen ==
    /\ PipelineParked
    /\ SemInit
    /\ arch = << >>
    /\ AgentsIdle
    /\ gs \in { GenerateStructured(p, given, u) :
                    p \in Prompts, given \in RetryArguments, u \in BOOLEAN }

NextGen ==
    \/ AttemptParses
    \/ \E e \in CaughtErrors(FALSE) : AttemptFailsParsing(e)
    \/ \E e \in UncaughtErrors : AttemptRaises(e)
    \/ Exhausted

SpecGen == InitGen /\ [][NextGen]_vars

\* generate_structured has failed and every response it got failed parsing
EveryResponseFailed == gs.st = "raised" /\ Len(gs.errors) = gs.calls

GenerateStructuredOver == gs.st \in {"returned", "raised"}

C36_WitnessParsed ==
    /\ gs.st = "returned"
    /\ gs.defaulted
    /\ Len(gs.errors) = 2
    /\ gs.calls = 3


----------------------------------------------------------------------------
(* ArchitectAgent.create_outline: the Phase-2 fan-out (SpecArchitect) *)

\* largest number of sessions Phase 1 returns
MaxDetailCalls == 6

\* largest number of CPUs of the machine
MaxCpus == 2

\* threads of the loop's default executor, which run_in_executor(None, ...)
\* uses: min(32, cpu_count + 4)
ExecutorWorkers(cpus) == IF cpus + 4 < 32 THEN cpus + 4 ELSE 32

\* create_outline is entered
CreateOutline(cpus) == [st |-> "phase1", cpus |-> cpus, details |-> << >>]

\* the get_session_details calls whose request a worker thread is sending
InFlight == { i \in 1..Len(arch.details) : arch.details[i] = "in_flight" }

\* create_outline_phase1 returned n sessions: gather makes one task per session
Phase1Returns(n) ==
    /\ arch.st = "phase1"
    /\ arch' = [arch EXCEPT !.st = "phase2", !.details = [i \in 1..n |-> "created"]]
    /\ UNCHANGED << statevars, runvars, semvars, gs, yt, fv, ed, nr, client >>

\* create_outline_phase1 raised
Phase1Fails ==
    /\ arch.st = "phase1"
    /\ arch' = [arch EXCEPT !.st = "raised"]
    /\ UNCHANGED << statevars, runvars, semvars, gs, yt, fv, ed, nr, client >>

\* task i runs get_details up to run_in_executor: the request is queued for a
\* worker thread; no semaphore is asked for
DetailCallStarts(i) ==
    /\ i \in 1..Len(arch.details)
    /\ arch.details[i] = "created"
    /\ arch' = [arch EXCEPT !.details[i] = "queued"]
    /\ UNCHANGED << statevars, runvars, semvars, gs, yt, fv, ed, nr, client >>

\* a free worker thread takes the request of task i
DetailCallSent(i) ==
    /\ i \in 1..Len(arch.details)
    /\ arch.details[i] = "queued"
    /\ Cardinality(InFlight) < ExecutorWorkers(arch.cpus)
    /\ arch' = [arch EXCEPT !.details[i] = "in_flight"]
    /\ UNCHANGED << statevars, runvars, semvars, gs, yt, fv, ed, nr, client >>

\* the call of task i returned its SessionDetailResponse
DetailCallReturns(i) ==
    /\ i \in InFlight
    /\ arch' = [arch EXCEPT !.details[i] = "returned"]
    /\ UNCHANGED << statevars, runvars, semvars, gs, yt, fv, ed, nr, client >>

\* the call of task i raised
DetailCallFails(i) ==
    /\ i \in InFlight
    /\ arch' = [arch EXCEPT !.details[i] = "raised"]
    /\ UNCHANGED << statevars, runvars, semvars, gs, yt, fv, ed, nr, client >>

\* asyncio.gather returned every result: the outline is built and returned
CreateOutlineReturns ==
    /\ arch.st = "phase2"
    /\ \A i \in 1..Len(arch.details) : arch.details[i] = "returned"
    /\ arch' = [arch EXCEPT !.st = "returned"]
    /\ UNCHANGED << statevars, runvars, semvars, gs, yt, fv, ed, nr, client >>

\* asyncio.gather raises the first exception; the other calls go on
CreateOutlineRaises ==
    /\ arch.st = "phase2"
    /\ \E i \in 1..Len(arch.details) : arch.details[i] = "raised"
    /\ arch' = [arch EXCEPT !.st = "raised"]
    /\ UNCHANGED << statevars, runvars, semvars, gs, yt, fv, ed, nr, client >>

InitArchitect ==
    /\ PipelineParked
    /\ SemInit
    /\ gs = << >>
    /\ AgentsIdle
    /\ arch \in { CreateOutline(cpus) : cpus \in 1..MaxCpus }

NextArchitect ==
    \/ \E n \in 0..MaxDetailCalls : Phase1Returns(n)
    \/ Phase1Fails
    \/ \E i \in 1..MaxDetailCalls : DetailCallStarts(i)
    \/ \E i \in 1..MaxDetailCalls : DetailCallSent(i)
    \/ \E i \in 1..MaxDetailCalls : DetailCallReturns(i)
    \/ \E i \in 1..MaxDetailCalls : DetailCallFails(i)
    \/ CreateOutlineReturns
    \/ CreateOutlineRaises

SpecArchitect == InitArchitect /\ [][NextArchitect]_vars

\* C9: the Phase-2 detail calls pass through the admission gate of the
\* research tasks, so at most MAX_CONCURRENT_API_CALLS (5) of them are in
\* flight at once, however many sessions Phase 1 returned.
C9_DetailCallsGated == Cardinality(InFlight) <= MAX_CONCURRENT_API_CALLS


----------------------------------------------------------------------------
(* YouTubeAgent.find_videos: the two tiers and the quota flag (SpecQuota) *)

\* find_videos calls made in the life of the process
MaxVideoCalls == 3

\* YouTubeAgent instances constructed in the life of the process (one per
\* _run_youtube_agent, so one per run)
MaxAgents == 2

FlagOwner_Instance(agent) == agent
\* _quota_exhausted is read and written as YouTubeAgent._quota_exhausted: the
\* attribute of the class, whatever the instance
FlagOwner(agent) == "YouTubeAgent"

\* what _find_videos_via_api lets out: QuotaExhaustedError (search or details),
\* ValueError (no API key), and anything else raised inside it
PrimaryErrors == {"QuotaExhaustedError", "ValueError", "AttributeError"}

CaughtByFindVideos_QuotaOnly == {"QuotaExhaustedError"}
\* except QuotaExhaustedError / except ValueError
CaughtByFindVideos == {"QuotaExhaustedError", "ValueError"}

\* if not YouTubeAgent._quota_exhausted
SkipsPrimary(quota_exhausted, agent) == quota_exhausted[FlagOwner(agent)]

\* find_videos is called on an instance: the flag is read, and the call is in
\* the tier the flag sends it to
FindVideos(agent) ==
    /\ Len(yt.calls) < MaxVideoCalls
    /\ LET skip == SkipsPrimary(yt.quota_exhausted, agent)
       IN yt' = [yt EXCEPT !.calls = Append(@,
                    [agent |-> agent,
                     st |-> IF skip THEN "fallback" ELSE "primary",
                     after_quota |-> yt.quota_seen,
                     primary_called |-> ~skip,
                     primary_error |-> None,
                     tier |-> "",
                     result |-> None])]
    /\ UNCHANGED << statevars, runvars, semvars, gs, arch, fv, ed, nr, client >>

\* return await self._find_videos_via_api(session, max_videos)
PrimaryReturns(i, videos) ==
    /\ i \in 1..Len(yt.calls)
    /\ yt.calls[i].st = "primary"
    /\ yt' = [yt EXCEPT !.calls[i].st = "returned",
                        !.calls[i].tier = "api",
                        !.calls[i].result = Some(videos)]
    /\ UNCHANGED << statevars, runvars, semvars, gs, arch, fv, ed, nr, client >>

\* the primary tier raises e: a caught one sets the flag and falls through to
\* the fallback tier, any other leaves find_videos
PrimaryRaises(i, e) ==
    /\ i \in 1..Len(yt.calls)
    /\ yt.calls[i].st = "primary"
    /\ IF e \in CaughtByFindVideos
       THEN yt' = [yt EXCEPT
                     !.quota_exhausted[FlagOwner(yt.calls[i].agent)] = TRUE,
                     !.quota_seen = @ \/ e = "QuotaExhaustedError",
                     !.calls[i].st = "fallback",
                     !.calls[i].primary_error = Some(e)]
       ELSE yt' = [yt EXCEPT !.calls[i].st = "raised",
                             !.calls[i].primary_error = Some(e)]
    /\ UNCHANGED << statevars, runvars, semvars, gs, arch, fv, ed, nr, client >>

\* return await self._find_videos_via_gemini_with_verification(...)
FallbackReturns(i, videos) ==
    /\ i \in 1..Len(yt.calls)
    /\ yt.calls[i].st = "fallback"
    /\ yt' = [yt EXCEPT !.calls[i].st = "returned",
                        !.calls[i].tier = "gemini",
                        !.calls[i].result = Some(videos)]
    /\ UNCHANGED << statevars, runvars, semvars, gs, arch, fv, ed, nr, client >>

InitQuota ==
    /\ PipelineParked
    /\ SemInit
    /\ gs = << >>
    /\ arch = << >>
    /\ fv = << >>
    /\ ed = << >>
    /\ nr = << >>
    /\ yt = [quota_exhausted |-> [o \in { FlagOwner(a) : a \in 1..MaxAgents } |-> FALSE],
             quota_seen |-> FALSE,
             calls |-> << >>]

NextQuota ==
    \/ \E a \in 1..MaxAgents : FindVideos(a)
    \/ \E i \in 1..MaxVideoCalls, v \in { << >>, << "api" >> } : PrimaryReturns(i, v)
    \/ \E i \in 1..MaxVideoCalls, e \in PrimaryErrors : PrimaryRaises(i, e)
    \/ \E i \in 1..MaxVideoCalls, v \in { << >>, << "gemini" >> } : FallbackReturns(i, v)

SpecQuota == InitQuota /\ [][NextQuota]_vars

\* calls started after some call had seen QuotaExhaustedError
StartedAfterQuota == { i \in 1..Len(yt.calls) : yt.calls[i].after_quota }

\* the flag of every owner that has it set keeps it set
FlagStaysSet ==
    \A o \in DOMAIN yt.quota_exhausted : yt.quota_exhausted[o] => yt'.quota_exhausted[o]

\* C11: once a find_videos call has seen the primary provider's quota
\* exhausted, every find_videos call started afterwards, on any agent instance
\* (so in any later run), never calls the primary tier and goes to the
\* fallback tier; the flag, once set, is never cleared.
C11_StraightToFallback ==
    /\ [](\A i \in StartedAfterQuota :
             /\ ~yt.calls[i].primary_called
             /\ yt.calls[i].st \in {"fallback", "returned"}
             /\ yt.calls[i].st = "returned" => yt.calls[i].tier = "gemini")
    /\ [][FlagStaysSet]_vars

\* a call on one instance saw the quota error; a call started later on the
\* other instance returned the fallback tier's list without the primary tier
C11_Witness ==
    \E i, j \in 1..Len(yt.calls) :
        /\ i < j
        /\ yt.calls[i].primary_error = Some("QuotaExhaustedError")
        /\ yt.calls[j].agent # yt.calls[i].agent
        /\ yt.calls[j].after_quota
        /\ yt.calls[j].st = "returned"
        /\ yt.calls[j].result = Some(<< "gemini" >>)

\* calls whose primary tier signalled quota exhaustion or a missing API key
PrimarySignalled ==
    { i \in 1..Len(yt.calls) :
        yt.calls[i].primary_error \in {Some("QuotaExhaustedError"), Some("ValueError")} }

\* C12: when the primary tier signals quota exhaustion or missing API
\* configuration during a find_videos call, that call sets the persistent
\* flag and returns what the fallback tier returns; it does not raise.
C12_FallsBackInTheSameCall ==
    \A i \in PrimarySignalled :
        /\ yt.quota_exhausted[FlagOwner(yt.calls[i].agent)]
        /\ yt.calls[i].st \in {"fallback", "returned"}
        /\ yt.calls[i].st = "returned" => yt.calls[i].tier = "gemini"

\* a call found no API key and returned the fallback tier's list
C12_Witness ==
    \E i \in 1..Len(yt.calls) :
        /\ yt.calls[i].primary_error = Some("ValueError")
        /\ yt.calls[i].st = "returned"
        /\ yt.calls[i].result = Some(<< "gemini" >>)
        /\ yt.quota_exhausted["YouTubeAgent"]


----------------------------------------------------------------------------
(* YouTubeAgent.find_videos: one call, tier by tier (SpecVideo) *)

\* largest max_videos tried
MaxVideos == 2

\* longest "videos" array the grounded model returns
MaxSuggested == 3

\* a str is the sequence of its parts; "youtube.com" in url
Contains(url, part) == \E i \in 1..Len(url) : url[i] = part

\* f"https://www.youtube.com/watch?v={video_id}"
ApiUrl(video_id) == << "https://", "www.", "youtube.com", "/watch?v=", video_id >>

\* d.get(key, default) of a dict (a function of its keys)
DictGet(d, key, default) == IF key \in DOMAIN d THEN d[key] ELSE default

\* statistics.viewCount of the videos the search knows
ViewCount(video_id) == IF video_id = "a" THEN 1 ELSE 2

\* items of the "videos" array of the grounded model: two YouTube videos, a
\* video of another site, a short link, a link to another site that quotes
\* youtube.com, an item without title, an item without url
SuggestedItems ==
    { [url |-> ApiUrl("a"), title |-> << "A" >>, channel |-> << "ca" >>,
       thumbnail_url |-> << "ta" >>],
      [url |-> ApiUrl("b"), title |-> << "B" >>],
      [url |-> << "https://", "vimeo.com", "/1" >>, title |-> << "C" >>],
      [url |-> << "https://", "youtu.be", "/a" >>, title |-> << "D" >>],
      [url |-> << "https://", "example.org", "/?u=", "youtube.com" >>,
       title |-> << "E" >>],
      [url |-> ApiUrl("a")],
      [title |-> << "F" >>] }

\* what verify_video_exists returns: None, or the JSON object of the answer
OembedResponses ==
    { None,
      Some(<< >>),
      Some([title |-> << "T" >>]),
      Some([title |-> << "T" >>, author_name |-> << "N" >>,
            thumbnail_url |-> << "U" >>]) }

\* if oembed_data: None and an empty dict are falsy
OembedTruthy(oembed_data) == oembed_data # None /\ DOMAIN oembed_data[1] # {}

ParseSuggestions_AnyUrl(video_list, max_videos) ==
    LET Video(v) == [url |-> DictGet(v, "url", << >>),
                     title |-> DictGet(v, "title", << >>),
                     channel |-> DictGet(v, "channel", << >>),
                     thumbnail_url |-> DictGet(v, "thumbnail_url", << >>)]
        Keep(v) == Video(v).url # << >> /\ Video(v).title # << >>
        kept == SelectSeq(Prefix(video_list, max_videos), Keep)
    IN [i \in 1..Len(kept) |-> Video(kept[i])]
\* the loop of _get_gemini_video_suggestions over video_list[:max_videos]
ParseSuggestions(video_list, max_videos) ==
    LET Video(v) == [url |-> DictGet(v, "url", << >>),
                     title |-> DictGet(v, "title", << >>),
                     channel |-> DictGet(v, "channel", << >>),
                     thumbnail_url |-> DictGet(v, "thumbnail_url", << >>)]
        Keep(v) == /\ Video(v).url # << >>
                   /\ Video(v).title # << >>
                   /\ Contains(Video(v).url, "youtube.com")
        kept == SelectSeq(Prefix(video_list, max_videos), Keep)
    IN [i \in 1..Len(kept) |-> Video(kept[i])]

\* the VideoResource built from a candidate and its oEmbed data
VerifiedVideo(video, oembed_data) ==
    [url |-> video.url,
     title |-> DictGet(oembed_data, "title", video.title),
     channel |-> DictGet(oembed_data, "author_name", video.channel),
     thumbnail_url |-> DictGet(oembed_data, "thumbnail_url", video.thumbnail_url)]

LoopBreaks_OneLate(verified_videos, max_videos) == Len(verified_videos) > max_videos
\* if len(verified_videos) >= max_videos: break
LoopBreaks(verified_videos, max_videos) == Len(verified_videos) >= max_videos

\* _fetch_candidate_videos: one candidate per distinct videoId
ApiCandidates(video_ids) ==
    LET ids == Dedup(video_ids)
    IN [i \in 1..Len(ids) |->
          [url |-> ApiUrl(ids[i]), title |-> << ids[i] >>, channel |-> << "ch" >>,
           thumbnail_url |-> << "th" >>, view_count |-> ViewCount(ids[i])]]

\* _rerank_videos: all candidates when there are no more than max_videos, else
\* the candidates at the valid indices among the first max_videos the model
\* selected, else (none, or the call failed) the most viewed
RerankVideos(candidates, selected, max_videos) ==
    LET n == Len(candidates)
        Resource(c) == [url |-> c.url, title |-> c.title, channel |-> c.channel,
                        thumbnail_url |-> c.thumbnail_url]
        Valid(idx) == 0 <= idx /\ idx < n
        picked == SelectSeq(Prefix(selected, max_videos), Valid)
        by_views == CHOOSE f \in [1..n -> 1..n] :
                      /\ \A i, j \in 1..n : i # j => f[i] # f[j]
                      /\ \A i, j \in 1..n : i < j =>
                            \/ candidates[f[i]].view_count > candidates[f[j]].view_count
                            \/ /\ candidates[f[i]].view_count = candidates[f[j]].view_count
                               /\ f[i] < f[j]
    IN IF n <= max_videos THEN [i \in 1..n |-> Resource(candidates[i])]
       ELSE IF picked # << >>
            THEN [i \in 1..Len(picked) |-> Resource(candidates[picked[i] + 1])]
            ELSE [i \in 1..max_videos |-> Resource(candidates[by_views[i]])]

\* find_videos(session, max_videos) is entered with the flag as it is
FindVideosCall(max_videos, quota_exhausted) ==
    [st |-> IF quota_exhausted THEN "suggesting" ELSE "primary",
     max_videos |-> max_videos,
     quota_exhausted |-> quota_exhausted,
     tier |-> "",
     video_list |-> << >>,
     candidates |-> << >>,
     next |-> 1,
     verified_videos |-> << >>,
     lookups |-> << >>,
     oembed |-> << >>,
     result |-> None]

\* _find_videos_via_api returns
PrimaryTierReturns(video_ids, selected) ==
    /\ fv.st = "primary"
    /\ fv' = [fv EXCEPT
                !.st = "returned",
                !.tier = "api",
                !.result = Some(IF video_ids = << >> THEN << >>
                                ELSE RerankVideos(ApiCandidates(video_ids), selected,
                                                  fv.max_videos))]
    /\ UNCHANGED << statevars, runvars, semvars, gs, arch, yt, ed, nr, client >>

\* _find_videos_via_api raises
PrimaryTierRaises(e) ==
    /\ fv.st = "primary"
    /\ fv' = IF e \in CaughtByFindVideos
             THEN [fv EXCEPT !.st = "suggesting", !.quota_exhausted = TRUE]
             ELSE [fv EXCEPT !.st = "raised"]
    /\ UNCHANGED << statevars, runvars, semvars, gs, arch, yt, ed, nr, client >>

\* one trip of the verification loop from its top: leave when enough videos
\* are verified or no candidate is left, else look the next candidate up
VerifyFrom(call) ==
    IF LoopBreaks(call.verified_videos, call.max_videos)
       \/ call.next > Len(call.candidates)
    THEN [call EXCEPT !.st = "returned", !.tier = "gemini",
                      !.result = Some(call.verified_videos)]
    ELSE [call EXCEPT !.st = "verifying",
                      !.lookups = Append(@, call.candidates[call.next].url)]

\* _get_gemini_video_suggestions returns its candidates for the JSON array the
\* grounded model gave; the loop starts its first lookup
SuggestionsReturn(video_list) ==
    /\ fv.st = "suggesting"
    /\ LET candidates == ParseSuggestions(video_list, fv.max_videos * 2)
           call == [fv EXCEPT !.video_list = video_list, !.candidates = candidates]
       IN fv' = VerifyFrom(call)
    /\ UNCHANGED << statevars, runvars, semvars, gs, arch, yt, ed, nr, client >>

\* generate_with_grounding or json.loads raises: no candidates, return []
SuggestionsFail ==
    /\ fv.st = "suggesting"
    /\ fv' = [fv EXCEPT !.st = "returned", !.tier = "gemini", !.result = Some(<< >>)]
    /\ UNCHANGED << statevars, runvars, semvars, gs, arch, yt, ed, nr, client >>

\* verify_video_exists returns for the candidate being looked up
VerifyReturns(oembed_data) ==
    /\ fv.st = "verifying"
    /\ LET video == fv.candidates[fv.next]
           call == [fv EXCEPT
                      !.oembed = Append(@, oembed_data),
                      !.next = @ + 1,
                      !.verified_videos =
                          IF OembedTruthy(oembed_data)
                          THEN Append(@, VerifiedVideo(video, oembed_data[1]))
                          ELSE @]
       IN fv' = VerifyFrom(call)
    /\ UNCHANGED << statevars, runvars, semvars, gs, arch, yt, ed, nr, client >>

\* the JSON arrays tried
RECURSIVE VideoLists_UpTo(_)
VideoLists_UpTo(n) ==
    IF n = 0 THEN { << >> }
    ELSE LET shorter == VideoLists_UpTo(n - 1)
         IN shorter \cup { Append(l, v) : l \in shorter, v \in SuggestedItems }

InitVideo ==
    /\ PipelineParked
    /\ SemInit
    /\ gs = << >>
    /\ arch = << >>
    /\ yt = << >>
    /\ ed = << >>
    /\ nr = << >>
    /\ fv \in { FindVideosCall(m, q) : m \in 1..MaxVideos, q \in BOOLEAN }

NextVideo ==
    \/ \E ids \in { << >>, << "a" >>, << "a", "b" >>, << "b", "a", "b" >> },
          sel \in { << >>, << 1 >>, << 5, 0 >>, << 1, 0, 1 >> } :
            PrimaryTierReturns(ids, sel)
    \/ \E e \in PrimaryErrors : PrimaryTierRaises(e)
    \/ \E l \in VideoLists_UpTo(MaxSuggested) : SuggestionsReturn(l)
    \/ SuggestionsFail
    \/ \E o \in OembedResponses : VerifyReturns(o)

SpecVideo == InitVideo /\ [][NextVideo]_vars

\* the lists of VideoResource the call holds or has returned
VideosHeld ==
    { fv.candidates, fv.verified_videos } \cup
    (IF fv.result = None THEN { } ELSE { fv.result[1] })

\* C14: every VideoResource find_videos returns, through either tier, has a
\* url containing youtube.com; a suggested candidate whose url does not is
\* dropped before any lookup and is in no list the call keeps or returns.
C14_OnlyYouTubeUrls ==
    /\ \A l \in VideosHeld : \A i \in 1..Len(l) :
          \E k \in 1..Len(l[i].url) : l[i].url[k] = "youtube.com"
    /\ \A i \in 1..Len(fv.lookups) :
          \E k \in 1..Len(fv.lookups[i]) : fv.lookups[i][k] = "youtube.com"

\* the model suggested a video of another site before a YouTube video, and
\* the call returned the YouTube video alone
C14_Witness ==
    /\ fv.st = "returned" /\ fv.tier = "gemini"
    /\ fv.video_list = << [url |-> << "https://", "vimeo.com", "/1" >>, title |-> << "C" >>],
                          [url |-> ApiUrl("b"), title |-> << "B" >>] >>
    /\ Len(fv.result[1]) = 1
    /\ fv.result[1][1].url = ApiUrl("b")

\* positions of the candidates whose lookup succeeded, among the first n looked up
LookedUpOk(n) == { i \in 1..n : fv.oembed[i] # None /\ DOMAIN fv.oembed[i][1] # {} }

\* C15: the fallback tier looks candidates up in candidate order, stops
\* looking up once max_videos are verified, and returns exactly the candidates
\* whose lookup succeeded, in that order and never more than max_videos; each
\* returned video keeps the candidate's url and takes title, channel and
\* thumbnail from the lookup when the lookup supplies them, else from the
\* candidate.
C15_VerifiedInOrder ==
    /\ Len(fv.lookups) <= Len(fv.candidates)
    /\ \A i \in 1..Len(fv.lookups) :
          /\ fv.lookups[i] = fv.candidates[i].url
          /\ Cardinality(LookedUpOk(i - 1)) < fv.max_videos
    /\ (fv.st = "returned" /\ fv.tier = "gemini") =>
          LET videos == fv.result[1]
              ok == LookedUpOk(Len(fv.oembed))
          IN /\ Len(fv.oembed) = Len(fv.lookups)
             /\ Len(videos) = Cardinality(ok)
             /\ Len(videos) <= fv.max_videos
             /\ \A j \in 1..Len(videos) :
                   \E i \in ok :
                      /\ Cardinality({ h \in ok : h < i }) = j - 1
                      /\ videos[j].url = fv.candidates[i].url
                      /\ videos[j].title =
                            IF "title" \in DOMAIN fv.oembed[i][1]
                            THEN fv.oembed[i][1].title ELSE fv.candidates[i].title
                      /\ videos[j].channel =
                            IF "author_name" \in DOMAIN fv.oembed[i][1]
                            THEN fv.oembed[i][1].author_name ELSE fv.candidates[i].channel
                      /\ videos[j].thumbnail_url =
                            IF "thumbnail_url" \in DOMAIN fv.oembed[i][1]
                            THEN fv.oembed[i][1].thumbnail_url
                            ELSE fv.candidates[i].thumbnail_url

\* max_videos is 1, two candidates: the lookup of the first succeeded with a
\* title only, the second was never looked up
C15_Witness ==
    /\ fv.st = "returned" /\ fv.tier = "gemini"
    /\ fv.max_videos = 1
    /\ Len(fv.candidates) = 2
    /\ fv.lookups = << ApiUrl("a") >>
    /\ fv.oembed = << Some([title |-> << "T" >>]) >>
    /\ fv.result[1] = << [url |-> ApiUrl("a"), title |-> << "T" >>,
                          channel |-> << "ca" >>, thumbnail_url |-> << "ta" >>] >>


----------------------------------------------------------------------------
(* EditorAgent.edit_session on the agent of one Editor stage (SpecEditor) *)

\* edit_session calls made on the agent (_run_editor starts one per affected
\* session, all on the same EditorAgent)
MaxEditCalls == 2

\* sessions handed to edit_session
EditorInputs ==
    { [outline_id |-> "session_1", title |-> "t1", session_type |-> "concept",
       order |-> 1, content |-> << "c1" >>, key_concepts |-> << "k" >>,
       resources |-> << "r" >>, exercises |-> << "x" >>, videos |-> << "v" >>,
       language |-> "en"],
      [outline_id |-> "session_2", title |-> "t2", session_type |-> "practice",
       order |-> 2, content |-> << "c2" >>, key_concepts |-> << >>,
       resources |-> << >>, exercises |-> << >>, videos |-> << >>,
       language |-> "he"] }

\* EditorResponse values the edit model may give
EditorResponses ==
    { [edited_content |-> << "edited" >>, needs_research |-> FALSE, research_request |-> None],
      [edited_content |-> << "edited" >>, needs_research |-> TRUE, research_request |-> None],
      [edited_content |-> << "edited" >>, needs_research |-> TRUE,
       research_request |-> Some(<< "gap" >>)] }

EditedSession_DropsConcepts(session, edited_content, language) ==
    [session EXCEPT !.content = edited_content, !.language = language,
                    !.key_concepts = << >>]
\* the ResearchedSession edit_session returns
EditedSession(session, edited_content, language) ==
    [outline_id |-> session.outline_id,
     title |-> session.title,
     session_type |-> session.session_type,
     order |-> session.order,
     content |-> edited_content,
     key_concepts |-> session.key_concepts,
     resources |-> session.resources,
     exercises |-> session.exercises,
     videos |-> session.videos,
     language |-> language]

\* _merge_research: the section appended under its heading
MergeResearch(edited_content, research_section) ==
    edited_content \o
    << IF research_section.suggested_heading # None /\ research_section.suggested_heading[1] # << >>
       THEN research_section.suggested_heading[1] ELSE << "Additional Information" >>,
       research_section.section_content >>

\* edit_session(session, ..., language) is called and awaits the edit model
EditSession(session, language) ==
    /\ Len(ed.calls) < MaxEditCalls
    /\ ed' = [ed EXCEPT !.calls = Append(@,
                [st |-> "editing",
                 session |-> session,
                 language |-> language,
                 edited_content |-> << >>,
                 original_config_key |-> "",
                 research |-> "",
                 result |-> None])]
    /\ UNCHANGED << statevars, runvars, semvars, gs, arch, yt, fv, nr, client >>

\* the edit model answered: return, or enter _fetch_research_section (the key
\* is saved and switched, then the gap-fill generation is awaited)
EditReturns(i, response) ==
    /\ i \in 1..Len(ed.calls)
    /\ ed.calls[i].st = "editing"
    /\ IF response.needs_research /\ Truthy(response.research_request)
       THEN ed' = [ed EXCEPT
                     !.model_config_key = "editor_research",
                     !.calls[i].st = "researching",
                     !.calls[i].edited_content = response.edited_content,
                     !.calls[i].original_config_key = ed.model_config_key]
       ELSE ed' = [ed EXCEPT
                     !.calls[i].st = "returned",
                     !.calls[i].edited_content = response.edited_content,
                     !.calls[i].result =
                         Some(EditedSession(ed.calls[i].session, response.edited_content,
                                            ed.calls[i].language))]
    /\ UNCHANGED << statevars, runvars, semvars, gs, arch, yt, fv, nr, client >>

\* generate_structured of the edit raised: edit_session raises
EditRaises(i) ==
    /\ i \in 1..Len(ed.calls)
    /\ ed.calls[i].st = "editing"
    /\ ed' = [ed EXCEPT !.calls[i].st = "raised"]
    /\ UNCHANGED << statevars, runvars, semvars, gs, arch, yt, fv, nr, client >>

\* the gap-fill generation returned: the key is put back (finally), the
\* section is merged, edit_session returns
ResearchReturns(i, research_section) ==
    /\ i \in 1..Len(ed.calls)
    /\ ed.calls[i].st = "researching"
    /\ ed' = [ed EXCEPT
                !.model_config_key = ed.calls[i].original_config_key,
                !.calls[i].st = "returned",
                !.calls[i].research = "merged",
                !.calls[i].result =
                    Some(EditedSession(ed.calls[i].session,
                                       MergeResearch(ed.calls[i].edited_content,
                                                     research_section),
                                       ed.calls[i].language))]
    /\ UNCHANGED << statevars, runvars, semvars, gs, arch, yt, fv, nr, client >>

\* the gap-fill generation raised: None is returned (except Exception), the
\* key is put back (finally), edit_session returns the edit alone
ResearchFails(i) ==
    /\ i \in 1..Len(ed.calls)
    /\ ed.calls[i].st = "researching"
    /\ ed' = [ed EXCEPT
                !.model_config_key = ed.calls[i].original_config_key,
                !.calls[i].st = "returned",
                !.calls[i].research = "failed",
                !.calls[i].result =
                    Some(EditedSession(ed.calls[i].session, ed.calls[i].edited_content,
                                       ed.calls[i].language))]
    /\ UNCHANGED << statevars, runvars, semvars, gs, arch, yt, fv, nr, client >>

InitEditor ==
    /\ PipelineParked
    /\ SemInit
    /\ gs = << >>
    /\ arch = << >>
    /\ yt = << >>
    /\ fv = << >>
    /\ nr = << >>
    /\ ed = [model_config_key |-> "editor", calls |-> << >>]

NextEditor ==
    \/ \E session \in EditorInputs, language \in {"en", "he"} : EditSession(session, language)
    \/ \E i \in 1..MaxEditCalls, response \in EditorResponses : EditReturns(i, response)
    \/ \E i \in 1..MaxEditCalls : EditRaises(i)
    \/ \E i \in 1..MaxEditCalls,
          heading \in { None, Some(<< "Decorators" >>) } :
            ResearchReturns(i, [section_content |-> << "section" >>,
                                suggested_heading |-> heading])
    \/ \E i \in 1..MaxEditCalls : ResearchFails(i)

SpecEditor == InitEditor /\ [][NextEditor]_vars

\* the edit_session calls that have returned
EditReturned == { i \in 1..Len(ed.calls) : ed.calls[i].st = "returned" }

\* the fields edit_session copies from the input session
CopiedFromInput(i) ==
    LET input == ed.calls[i].session
        out == ed.calls[i].result[1]
    IN /\ out.outline_id = input.outline_id
       /\ out.title = input.title
       /\ out.session_type = input.session_type
       /\ out.order = input.order
       /\ out.key_concepts = input.key_concepts
       /\ out.resources = input.resources
       /\ out.exercises = input.exercises

\* C16 as stated: the session edit_session returns has the outline_id, title,
\* session_type, order, key_concepts, resources, exercises and language of the
\* input session, whatever the input and the language argument.
C16_AllButContentKept ==
    \A i \in EditReturned :
        /\ CopiedFromInput(i)
        /\ ed.calls[i].result[1].language = ed.calls[i].session.language

\* C16, amended: the session edit_session returns has the outline_id, title,
\* session_type, order, key_concepts, resources, exercises and videos of the
\* input session, and its language is the language argument of the call (the
\* input session's language only when the two agree); content is the only
\* other field that may differ.
C16_LanguageFromArgument ==
    \A i \in EditReturned :
        /\ CopiedFromInput(i)
        /\ ed.calls[i].result[1].videos = ed.calls[i].session.videos
        /\ ed.calls[i].result[1].language = ed.calls[i].language

\* an English session edited with language "he" came back as a Hebrew session
C16_Witness ==
    \E i \in EditReturned :
        /\ ed.calls[i].session.language = "en"
        /\ ed.calls[i].language = "he"
        /\ ed.calls[i].result[1].language = "he"
        /\ ed.calls[i].result[1].key_concepts = << "k" >>
        /\ ed.calls[i].result[1].content = << "edited" >>

\* C17: when the edit model asks for research and the gap-fill generation
\* fails, edit_session raises nothing and returns the primary edited content
\* with nothing appended, and once the calls on the agent are out of the
\* gap-fill the agent's model configuration key is the original one, "editor".
C17_GapFillFailureHarmless ==
    /\ \A i \in 1..Len(ed.calls) :
          ed.calls[i].research = "failed" =>
             /\ ed.calls[i].st = "returned"
             /\ ed.calls[i].result[1].content = ed.calls[i].edited_content
    /\ (/\ \E i \in 1..Len(ed.calls) : ed.calls[i].research = "failed"
        /\ \A i \in 1..Len(ed.calls) : ed.calls[i].st # "researching") =>
          ed.model_config_key = "editor"


----------------------------------------------------------------------------
(* BaseAgent._call_with_network_retry (SpecNet) *)

NETWORK_RETRY_ATTEMPTS == 3       \* model_config.py
NETWORK_RETRY_BASE_DELAY == 1     \* model_config.py, seconds
NETWORK_RETRY_MAX_DELAY == 30     \* model_config.py, seconds

RETRYABLE_NETWORK_ERRORS_AndValueError ==
    {"httpcore.RemoteProtocolError", "httpx.RemoteProtocolError", "ConnectionError",
     "TimeoutError", "OSError", "ValueError"}
\* errors of the wrapped call that are retried
RETRYABLE_NETWORK_ERRORS ==
    {"httpcore.RemoteProtocolError", "httpx.RemoteProtocolError", "ConnectionError",
     "TimeoutError", "OSError"}

\* errors the wrapped call may raise
CallErrors == RETRYABLE_NETWORK_ERRORS \cup {"ValueError", "KeyError"}

AttemptBudget_OneMore == NETWORK_RETRY_ATTEMPTS + 1
\* the number of attempts the loop makes
AttemptBudget == NETWORK_RETRY_ATTEMPTS

\* the base delay doubled with every attempt, capped at the maximum
RetryDelay(attempt) ==
    LET delay == NETWORK_RETRY_BASE_DELAY * (2 ^ attempt)
    IN IF delay < NETWORK_RETRY_MAX_DELAY THEN delay ELSE NETWORK_RETRY_MAX_DELAY

\* _call_with_network_retry(call, operation_name) is entered
CallWithNetworkRetry ==
    [st |-> "running", attempt |-> 0, calls |-> 0, errors |-> << >>,
     sleeps |-> << >>, raised |-> None]

\* call() returns: its result is returned
CallReturns ==
    /\ nr.st = "running"
    /\ nr.attempt < AttemptBudget
    /\ nr' = [nr EXCEPT !.st = "returned", !.calls = @ + 1]
    /\ UNCHANGED << statevars, runvars, semvars, gs, arch, yt, fv, ed, client >>

\* call() raises e: a retryable error before the last attempt is logged and
\* slept on, on the last attempt it is raised; any other error is not caught
CallRaises(e) ==
    /\ nr.st = "running"
    /\ nr.attempt < AttemptBudget
    /\ IF e \in RETRYABLE_NETWORK_ERRORS /\ nr.attempt < AttemptBudget - 1
       THEN nr' = [nr EXCEPT !.calls = @ + 1,
                             !.errors = Append(@, e),
                             !.sleeps = Append(@, RetryDelay(nr.attempt)),
                             !.attempt = @ + 1]
       ELSE nr' = [nr EXCEPT !.st = "raised",
                             !.calls = @ + 1,
                             !.errors = Append(@, e),
                             !.raised = Some(e)]
    /\ UNCHANGED << statevars, runvars, semvars, gs, arch, yt, fv, ed, client >>

InitNet ==
    /\ PipelineParked
    /\ SemInit
    /\ gs = << >>
    /\ arch = << >>
    /\ yt = << >>
    /\ fv = << >>
    /\ ed = << >>
    /\ nr = CallWithNetworkRetry

NextNet ==
    \/ CallReturns
    \/ \E e \in CallErrors : CallRaises(e)

SpecNet == InitNet /\ [][NextNet]_vars

\* the names of the network errors the wrapper retries
NetworkErrors ==
    {"httpcore.RemoteProtocolError", "httpx.RemoteProtocolError", "ConnectionError",
     "TimeoutError", "OSError"}

\* every attempt made so far raised a network error
OnlyNetworkErrors ==
    /\ Len(nr.errors) = nr.calls
    /\ \A i \in 1..Len(nr.errors) : nr.errors[i] \in NetworkErrors

\* C19: a wrapped call that raises a retryable network error every time is
\* attempted NETWORK_RETRY_ATTEMPTS times, never more, and then the network
\* error of the last attempt is raised as it is; a call that first succeeds on
\* attempt k returns after exactly k attempts, the k - 1 before it having
\* failed and been slept on.
C19_FixedAttempts ==
    /\ nr.calls <= 3
    /\ (nr.st = "raised" /\ OnlyNetworkErrors) =>
          /\ nr.calls = 3
          /\ nr.raised = Some(nr.errors[3])
          /\ Len(nr.sleeps) = 2
    /\ (nr.st = "running" /\ OnlyNetworkErrors) => nr.calls < 3
    /\ nr.st = "returned" =>
          /\ nr.calls = Len(nr.errors) + 1
          /\ Len(nr.sleeps) = Len(nr.errors)
          /\ nr.raised = None

\* three attempts failed on network errors and the last one came out
C19_Witness ==
    /\ nr.st = "raised"
    /\ nr.errors = << "ConnectionError", "httpx.RemoteProtocolError", "TimeoutError" >>
    /\ nr.raised = Some("TimeoutError")
    /\ nr.sleeps = << 1, 2 >>

\* the call failed twice and succeeded on the third attempt
C19_WitnessSuccess ==
    /\ nr.st = "returned"
    /\ nr.calls = 3
    /\ nr.errors = << "httpcore.RemoteProtocolError", "httpcore.RemoteProtocolError" >>

\* C20: an error outside the retryable network set (ValueError, KeyError) is
\* raised by the attempt that met it: no attempt and no delay follow it, and
\* when the first attempt meets it the wrapper has made exactly one attempt
\* and slept not at all.
C20_OtherErrorsNotRetried ==
    \A i \in 1..Len(nr.errors) :
        nr.errors[i] \in {"ValueError", "KeyError"} =>
            /\ nr.st = "raised"
            /\ nr.raised = Some(nr.errors[i])
            /\ i = Len(nr.errors)
            /\ nr.calls = i
            /\ Len(nr.sleeps) = i - 1

\* the first attempt raised ValueError: one attempt, no sleep
C20_Witness ==
    /\ nr.st = "raised"
    /\ nr.errors = << "ValueError" >>
    /\ nr.raised = Some("ValueError")
    /\ nr.calls = 1
    /\ nr.sleeps = << >>

----------------------------------------------------------------------------
(* Properties of the saved roadmap, of trace.save, of the auto-fix loop and
   of the research fan-in *)

\* the Roadmap documents and the Session documents of all of them
SessionDocs == Concat([r \in 1..Len(roadmaps) |-> roadmaps[r].docs])

\* the complete events of run_pipeline
CompleteEvents ==
    { i \in 1..Len(events["run"]) : events["run"][i].event = "complete" }

\* run_pipeline has set the stage to complete after its own _save_roadmap
RunReachedComplete ==
    /\ stage = "complete"
    /\ pc["run"] = "complete_trace_save" \/ RunCompleted

\* C21: when the run has reached stage complete, exactly one roadmap record
\* exists and exactly one session record per item of the outline; the
\* roadmap's session references list these N sessions in ascending order;
\* state.roadmap_id and the complete event carry the id of that roadmap.
C21_OneRoadmapPerRun ==
    RunReachedComplete =>
        /\ Len(roadmaps) = 1
        /\ Len(SessionDocs) = Len(session_outline[1])
        /\ roadmaps[1].sessions = [k \in 1..Len(session_outline[1]) |-> k]
        /\ roadmap_id = Some(1)
        /\ \A i \in CompleteEvents : events["run"][i].n = 1

\* the positions of run_pipeline at which trace.save() is awaited
TraceSavePcs ==
    {"architect_trace_save", "research_trace_save", "videos_trace_save",
     "validator_trace_save", "editor_trace_save", "save_trace_save",
     "complete_trace_save"}

\* C22: a trace.save() that raises, at whichever point of the run it is
\* awaited, does not fail the stage it was called from: the step that ends
\* such an await never moves the run to stage error.
C22_TraceSaveFailureHarmless ==
    [][ (pc["run"] \in TraceSavePcs /\ pc'["run"] # pc["run"])
            => stage' # "error" ]_vars

\* the session ids named by the issues of a validation result
IdsNamedBy(result) ==
    UNION { Range(result.issues[i].affected_session_ids) :
              i \in 1..Len(result.issues) }

\* a fix_history record describes this validation result
RecordDescribes(record, result) ==
    /\ record.issues_count = Len(result.issues)
    /\ Range(record.affected_sessions) = IdsNamedBy(result)
    /\ Cardinality(IdsNamedBy(result)) = Len(record.affected_sessions)

\* a step that writes fix_history appends one record, for the validation
\* result the state holds
FixHistoryStep ==
    fix_history' # fix_history =>
        /\ Len(fix_history') = Len(fix_history) + 1
        /\ SubSeq(fix_history', 1, Len(fix_history)) = fix_history
        /\ validation_result # None
        /\ ~validation_result[1].is_valid
        /\ RecordDescribes(fix_history'[Len(fix_history')], validation_result[1])

\* C28: in every state of a run fix_attempt equals the number of records of
\* fix_history, the k-th record carries attempt k, and fix_attempt never
\* exceeds 2; every record is appended with the issue count and the affected
\* session ids of the validation that triggered it.
C28_FixHistoryMatches ==
    /\ [](/\ fix_attempt = Len(fix_history)
          /\ fix_attempt <= 2
          /\ \A k \in 1..Len(fix_history) : fix_history[k].attempt = k)
    /\ [][FixHistoryStep]_vars

\* the second Editor stage has recorded two issues naming two sessions
C28_Witness ==
    /\ fix_attempt = 2
    /\ Len(fix_history) = 2
    /\ fix_history[2].issues_count = 2
    /\ Len(fix_history[2].affected_sessions) = 2
    /\ fix_history[1].affected_sessions = << >>

\* some Validator result of the run so far was valid
SomeValid == \E i \in 1..Len(validations) : validations[i]

\* a step of the auto-fix loop as the loop allows it
LoopStep ==
    /\ (pc["run"] # "revising" /\ pc'["run"] = "revising") =>
          /\ pc["run"] = "validator_trace_save"
          /\ validations # << >> /\ ~validations[Len(validations)]
          /\ ~validation_result[1].is_valid
          /\ fix_attempt < 2
    /\ (pc["run"] = "validator_trace_save" /\ validation_result[1].is_valid
           /\ pc'["run"] # pc["run"]) =>
          pc'["run"] \in {"roadmap_insert", "error_trace_save"}
    /\ SomeValid => (validations' = validations /\ fix_attempt' = fix_attempt)

\* C29: the Editor is invoked only directly after a Validator result that is
\* not valid and while fewer than 2 attempts were made; as soon as a result is
\* valid the run proceeds to saving with no further Editor or Validator call;
\* a run whose first validation is valid makes no Editor call at all
\* (fix_attempt stays 0).
C29_EditorOnlyAfterInvalid ==
    /\ [][LoopStep]_vars
    /\ [](SomeValid =>
            /\ validations[Len(validations)]
            /\ \A i \in 1..(Len(validations) - 1) : ~validations[i]
            /\ pc["run"] \notin {"validator_call", "revising", "editor_trace_save"})
    /\ []((validations # << >> /\ validations[1]) =>
            (fix_attempt = 0 /\ EditorStages = 0 /\ fix_history = << >>))

\* one Editor stage ran, the second validation was valid and the run is saving
C29_Witness ==
    /\ pc["run"] = "roadmap_insert"
    /\ validations = << FALSE, TRUE >>
    /\ fix_attempt = 1

\* the first validation was valid and the run has completed without an edit
C29_WitnessFirstValid ==
    /\ RunCompleted
    /\ validations = << TRUE >>
    /\ fix_attempt = 0

\* the outline of the run, empty before the Architect returned
OutlineItems == IF session_outline = None THEN << >> ELSE session_outline[1]

\* a step that writes researched_sessions for the first time does so with
\* every research task done; a step in which a research task fails leaves it
\* empty and moves the run to error
ResearchWriteStep ==
    /\ (researched_sessions = << >> /\ researched_sessions' # << >>) =>
          /\ pc["run"] = "research_trace_save"
          /\ Len(tasks) = Len(OutlineItems)
          /\ \A i \in 1..Len(tasks) :
                tasks[i].kind = "research" /\ tasks[i].st = "done"
    /\ (pc["run"] = "researching"
           /\ \E i \in 1..Len(tasks) :
                 tasks[i].st = "holding" /\ tasks'[i].st = "failed") =>
          /\ stage' = "error"
          /\ researched_sessions' = << >>

\* C30: researched_sessions is written only after all N research tasks have
\* completed: it is empty or holds one session for each of the N outline
\* items, never a proper subset; when a research task fails it stays empty
\* and the run moves to error.
C30_AllOrNothing ==
    /\ [](\/ researched_sessions = << >>
          \/ /\ Len(researched_sessions) = Len(OutlineItems)
             /\ \A k \in 1..Len(OutlineItems) :
                   \E i \in 1..Len(researched_sessions) :
                      researched_sessions[i].outline_id = OutlineItems[k].id)
    /\ [](exc["run"] = "research" =>
             (researched_sessions = << >>
                 /\ pc["run"] \in {"error_trace_save", "ended"}
                 /\ (pc["run"] = "ended"
                        => events["run"][Len(events["run"])].event = "error")))
    /\ [][ResearchWriteStep]_vars

\* both sessions were researched and the list was written
C30_Witness ==
    /\ pc["run"] = "finding_videos"
    /\ Len(OutlineItems) = 2
    /\ Len(researched_sessions) = 2

\* one of two research tasks returned, the other failed: the list is empty
C30_WitnessFailed ==
    /\ exc["run"] = "research"
    /\ stage = "error"
    /\ Len(completed) = 1
    /\ researched_sessions = << >>

\* the indices of a list that lie in 0..n-1, in their order
InRange(indices, n) ==
    SelectSeq(indices, LAMBDA idx : 0 <= idx /\ idx < n)

\* C26: a session index outside 0..N-1 among the affected_session_indices of
\* the Validator model is dropped: validate never raises on it, and the ids
\* of an issue are those of its indices inside 0..N-1 and no other.
C26_OutOfRangeDropped ==
    /\ exc["run"] # "IndexError"
    /\ pc["run"] = "validator_trace_save" =>
          \A i \in 1..Len(validation_result[1].issues) :
             validation_result[1].issues[i].affected_session_ids
                = LET raw == last_response[1].issues[i].affected_session_indices
                      kept == InRange(raw, Len(researched_sessions))
                  IN [k \in 1..Len(kept) |->
                         researched_sessions[kept[k] + 1].outline_id]

----------------------------------------------------------------------------
(* ArchitectAgent.create_outline after the gather of Phase 2: the loop that
   builds the SessionOutlineItems from the detail responses *)

\* largest number of sessions of an outline that is assembled
MaxOutlineItems == 3

\* prerequisites lists a SessionDetailResponse may carry (list[int], 0-based
\* by the prompt, not constrained by the schema)
PrerequisiteLists ==
    { << >>, << 0 >>, << 1 >>, << 1, 0 >>, << MaxOutlineItems >>, << -1 >>,
      << 0 - MaxOutlineItems >>, << 0, 0 >> }

\* the detail responses of n sessions
RECURSIVE DetailResponses(_)
DetailResponses(n) ==
    IF n = 0 THEN { << >> }
    ELSE { Append(d, p) : d \in DetailResponses(n - 1), p \in PrerequisiteLists }

\* sessions[idx].id
PrerequisiteId_NoWrap(sessions, idx) == SessionId(idx + 1)
PrerequisiteId(sessions, idx) == PyIndex(sessions, idx).id

\* [sessions[idx].id for idx in details.prerequisites if idx < len(sessions)]
RECURSIVE PrerequisiteIds(_, _)
PrerequisiteIds(indices, sessions) ==
    IF indices = << >> THEN << >>
    ELSE (IF Head(indices) < Len(sessions)
          THEN << PrerequisiteId(sessions, Head(indices)) >>
          ELSE << >>)
         \o PrerequisiteIds(Tail(indices), sessions)

\* the comprehension raises IndexError
PrerequisitesRaise(indices, sessions) ==
    \E k \in 1..Len(indices) :
        /\ indices[k] < Len(sessions)
        /\ IndexRaises(indices[k], Len(sessions))

\* the loop is entered with the gathered detail responses
AssembleOutline(details) ==
    [st |-> "assembling", details |-> details, sessions |-> << >>]

\* one iteration of the loop: the item of position i is built and appended
SessionAppended ==
    /\ arch.st = "assembling"
    /\ Len(arch.sessions) < Len(arch.details)
    /\ LET i == Len(arch.sessions)
           indices == arch.details[i + 1]
       IN /\ ~PrerequisitesRaise(indices, arch.sessions)
          /\ arch' = [arch EXCEPT !.sessions =
                        Append(@, [id |-> SessionId(i + 1),
                                   prerequisites |-> PrerequisiteIds(indices, arch.sessions),
                                   order |-> i + 1])]
    /\ UNCHANGED << statevars, runvars, semvars, gs, yt, fv, ed, nr, client >>

\* one iteration of the loop raises IndexError: create_outline raises
SessionRaises ==
    /\ arch.st = "assembling"
    /\ Len(arch.sessions) < Len(arch.details)
    /\ PrerequisitesRaise(arch.details[Len(arch.sessions) + 1], arch.sessions)
    /\ arch' = [arch EXCEPT !.st = "raised"]
    /\ UNCHANGED << statevars, runvars, semvars, gs, yt, fv, ed, nr, client >>

\* the loop ended: the SessionOutline is returned
OutlineReturned ==
    /\ arch.st = "assembling"
    /\ Len(arch.sessions) = Len(arch.details)
    /\ arch' = [arch EXCEPT !.st = "returned"]
    /\ UNCHANGED << statevars, runvars, semvars, gs, yt, fv, ed, nr, client >>

InitOutline ==
    /\ PipelineParked
    /\ SemInit
    /\ gs = << >>
    /\ AgentsIdle
    /\ \E n \in 0..MaxOutlineItems :
          arch \in { AssembleOutline(d) : d \in DetailResponses(n) }

NextOutline ==
    \/ SessionAppended
    \/ SessionRaises
    \/ OutlineReturned

SpecOutline == InitOutline /\ [][NextOutline]_vars

\* the ids of the items before position i of the list
IdsBefore(sessions, i) == { sessions[j].id : j \in 1..(i - 1) }

\* C25: in every outline create_outline returns, each prerequisite id of the
\* item at position i is the id of an item strictly before i (no reference to
\* itself, to a later item or to an id outside the outline, whatever indices
\* the detail responses carried), and the order values are exactly 1..N.
C25_PrerequisitesPointBack ==
    arch.st = "returned" =>
        /\ Len(arch.sessions) = Len(arch.details)
        /\ \A i \in 1..Len(arch.sessions) :
              /\ arch.sessions[i].order = i
              /\ Range(arch.sessions[i].prerequisites) \subseteq IdsBefore(arch.sessions, i)
              /\ arch.sessions[i].id \notin Range(arch.sessions[i].prerequisites)

\* an outline of three items was returned although the responses carried a
\* forward index, the index of the item itself and a negative index
C25_Witness ==
    /\ arch.st = "returned"
    /\ arch.details = << << 1 >>, << 1, 0 >>, << -1 >> >>
    /\ arch.sessions[1].prerequisites = << >>
    /\ arch.sessions[2].prerequisites = << SessionId(1) >>
    /\ arch.sessions[3].prerequisites = << SessionId(2) >>

----------------------------------------------------------------------------
(* Termination of a run: the specification of one pipeline with every
   awaited call eventually returning or raising *)

\* sessions per outline of the runs followed to their end
MaxLiveSessions == 1

\* one pipeline run, as Next
NextLive ==
    \/ StartCreation
    \/ RunPipeline(MaxLiveSessions, ValidatorResponses)
    \/ FanOutTasks(MaxLiveSessions, VideoLists)
    \/ SaveRoadmap("run")
    \/ ErrorHandling("run")

\* the event loop resumes the run, and each of its tasks, whenever an awaited
\* call of it can return or raise
SpecLive == Init /\ [][NextLive]_vars /\ WF_vars(NextLive)

\* run_pipeline was entered
RunStarted == pc["run"] \notin {"initialized", "interviewer_call", "awaiting_answers",
                                "start_failed"}

\* run_pipeline ended in stage complete or in stage error
RunEnded == pc["run"] = "ended" /\ stage \in {"complete", "error"}

\* run_pipeline ended in stage complete with its roadmap persisted
RunPersisted ==
    /\ RunCompleted
    /\ stage = "complete"
    /\ \E r \in 1..Len(roadmaps) :
          /\ roadmaps[r].by = "run"
          /\ roadmap_id = Some(r)
          /\ Len(roadmaps[r].docs) = Len(session_outline[1])

----------------------------------------------------------------------------
(* The client of a pipeline during its run: the DELETE request served by
   cancel_creation, and the consumer of the event stream of submit_interview *)

\* cancel_creation finds the pipeline and marks its trace, up to the await of
\* trace.save()
CancelCreation ==
    /\ client.cancel = "none"
    /\ registered
    /\ final_status' = "abandoned"
    /\ client' = [client EXCEPT !.cancel = "trace_save"]
    /\ UNCHANGED << statevars, semvars, pc, events, title, save_sessions,
                    returned_title, completed, completion_order, validations,
                    last_response, exc, registered, roadmaps,
                    gs, arch, yt, fv, ed, nr, trace_spans >>

\* trace.save() returned: the pipeline is popped and "cancelled" is answered
CancelTraceSaved ==
    /\ client.cancel = "trace_save"
    /\ registered' = FALSE
    /\ client' = [client EXCEPT !.cancel = "cancelled"]
    /\ UNCHANGED << statevars, semvars, pc, events, title, save_sessions,
                    returned_title, completed, completion_order, validations,
                    last_response, exc, roadmaps, final_status,
                    gs, arch, yt, fv, ed, nr, trace_spans >>

\* trace.save() raised: the request fails and the pipeline stays stored
CancelTraceSaveFails ==
    /\ client.cancel = "trace_save"
    /\ client' = [client EXCEPT !.cancel = "failed"]
    /\ UNCHANGED << statevars, semvars, pc, events, title, save_sessions,
                    returned_title, completed, completion_order, validations,
                    last_response, exc, registered, roadmaps, final_status,
                    gs, arch, yt, fv, ed, nr, trace_spans >>

\* one run with a cancel request arriving at any moment the pipeline is stored
NextCancel ==
    \/ StartCreation
    \/ RunPipeline(MaxLiveSessions, ValidatorResponses)
    \/ FanOutTasks(MaxLiveSessions, VideoLists)
    \/ SaveRoadmap("run")
    \/ ErrorHandling("run")
    \/ CancelCreation
    \/ CancelTraceSaved
    \/ CancelTraceSaveFails

SpecCancel == Init /\ [][NextCancel]_vars

\* C24: after cancel_creation has succeeded for a pipeline, its run persists no
\* roadmap record and no session record, also when the request arrived while
\* run_pipeline was in progress, and the final status of the trace stays
\* "abandoned".
C24_CancelledRunPersistsNothing ==
    /\ [][client.cancel = "cancelled" => roadmaps' = roadmaps]_vars
    /\ [](client.cancel = "cancelled" => final_status = "abandoned")

\* the tasks of an asyncio.gather that the cancellation of the generator
\* cancels: the video searches and the Editor calls still running (the
\* research tasks are created with create_task and go on)
GatherChildren ==
    { i \in 1..Len(tasks) : tasks[i].kind # "research" /\ ~Finished(tasks[i]) }

\* the consumer of the stream of submit_interview disconnects: the response
\* cancels the generator at the await or the yield it stands at;
\* CancelledError and GeneratorExit pass "except Exception", and the finally
\* of event_generator pops the pipeline only in stage complete or error
ConsumerDisconnects ==
    /\ client.consumer = "reading"
    /\ pc["run"] \notin {"initialized", "interviewer_call", "awaiting_answers",
                         "start_failed", "ended"}
    /\ client' = [client EXCEPT !.consumer = "gone"]
    /\ Goto("run", "cancelled")
    /\ tasks' = [i \in 1..Len(tasks) |->
                    IF i \in GatherChildren
                    THEN [tasks[i] EXCEPT !.st = "cancelled"] ELSE tasks[i]]
    /\ semaphores' = [s \in 1..Len(semaphores) |->
                        semaphores[s]
                          + Cardinality({ i \in GatherChildren :
                                            tasks[i].st = "holding" /\ tasks[i].sem = s })]
    /\ RouterFinally("run", stage)
    /\ UNCHANGED << statevars, events, title, save_sessions, returned_title,
                    completed, completion_order, validations, last_response, exc,
                    roadmaps, final_status, api_semaphore,
                    gs, arch, yt, fv, ed, nr, trace_spans >>

\* one run whose stream consumer may disconnect at any moment of run_pipeline
NextStream ==
    \/ StartCreation
    \/ RunPipeline(MaxLiveSessions, ValidatorResponses)
    \/ FanOutTasks(MaxLiveSessions, VideoLists)
    \/ SaveRoadmap("run")
    \/ ErrorHandling("run")
    \/ ConsumerDisconnects

\* every step that can be taken is taken in the end: calls return or raise,
\* and the event loop resumes whatever is not cancelled
SpecStream == Init /\ [][NextStream]_vars /\ WF_vars(NextStream)

\* the roadmap of the run is persisted and the stage is complete
RoadmapPersisted ==
    /\ stage = "complete"
    /\ \E r \in 1..Len(roadmaps) : roadmaps[r].by = "run" /\ roadmap_id = Some(r)

\* C23: when the consumer of the event stream disconnects at any point after
\* run_pipeline has started, the run still proceeds through its remaining
\* stages: unless a call of it raises, it reaches stage complete with the
\* roadmap persisted.
C23_RunSurvivesDisconnect ==
    (client.consumer = "gone") ~> (RoadmapPersisted \/ exc["run"] # "")

----------------------------------------------------------------------------
(* Properties of the event stream, of the halted run, of the Editor stage and
   of the records a failed run leaves *)

\* positions of the events of a kind, and of a stage, in the stream of the run
EventsAt(kind, detail) ==
    { i \in 1..Len(events["run"]) :
        events["run"][i].event = kind /\ events["run"][i].detail = detail }

\* the session_progress events of the stream, in emission order
IsProgress(e) == e.event = "session_progress"
ProgressEvents == SelectSeq(events["run"], IsProgress)

\* a step in which a research task completes while the loop of the research
\* stage consumes it appends exactly one session_progress event
ProgressStep ==
    (pc["run"] = "researching"
        /\ \E i \in 1..Len(tasks) :
              tasks[i].kind = "research" /\ tasks[i].st = "holding"
                 /\ tasks'[i].st = "done")
      => /\ Len(events'["run"]) = Len(events["run"]) + 1
         /\ events'["run"][Len(events'["run"])].event = "session_progress"

\* C31: a run whose research stage succeeds emits exactly N session_progress
\* events, one as each research task completes; their completed values are
\* 1, 2, ..., N in emission order whatever order the tasks complete in, each
\* carries total = N, and all of them lie after the "researching"
\* stage_update and before the "researching" stage_complete.
C31_ProgressEvents ==
    /\ [](\A k \in 1..Len(ProgressEvents) :
             /\ ProgressEvents[k].n = k
             /\ ProgressEvents[k].total = Len(session_outline[1]))
    /\ [](\A i \in EventsAt("session_progress", "") :
             /\ \E u \in EventsAt("stage_update", "researching") : u < i
             /\ \A c \in EventsAt("stage_complete", "researching") : i < c)
    /\ [](EventsAt("stage_complete", "researching") # {}
             => Len(ProgressEvents) = Len(session_outline[1]))
    /\ [][ProgressStep]_vars

\* the second session was researched first: the events count 1, 2 of 2
C31_Witness ==
    /\ pc["run"] = "research_trace_save"
    /\ completion_order = << 2, 1 >>
    /\ Len(ProgressEvents) = 2
    /\ ProgressEvents[1].n = 1
    /\ ProgressEvents[2].total = 2

----------------------------------------------------------------------------
(* The research fan-out of an outline with more sessions than the admission
   gate admits: the state of _run_researchers_parallel once the event loop has
   run every new task up to its first suspension *)

\* research tasks left waiting at the gate
MaxWaiting == 1

\* sessions of the outline
HaltSessions == MAX_CONCURRENT_API_CALLS + MaxWaiting

\* the first MAX_CONCURRENT_API_CALLS tasks hold the gate and await their
\* Researcher call, the others wait in "async with semaphore"
InitHalt ==
    /\ stage = "researching"
    /\ topic = Str(2)
    /\ suggested_title = Some(<< "B" >>)
    /\ confirmed_title = None
    /\ session_outline = Some(Outline(HaltSessions))
    /\ researched_sessions = << >>
    /\ validation_result = None
    /\ fix_attempt = fix_attempt_default
    /\ fix_history = fix_history_default
    /\ roadmap_id = None
    /\ error_message = None
    /\ pc = [w \in Who |-> IF w = "run" THEN "researching" ELSE "none"]
    /\ events = [w \in Who |->
                   IF w = "run"
                   THEN << Ev("stage_update", "architecting", 0),
                           Ev("title_suggestion", "", 0),
                           Ev("stage_complete", "architecting", HaltSessions),
                           Ev("stage_update", "researching", 0) >>
                   ELSE << >>]
    /\ title = [w \in Who |-> << >>]
    /\ save_sessions = [w \in Who |-> << >>]
    /\ exc = [w \in Who |-> ""]
    /\ returned_title = << "B" >>
    /\ completed = << >>
    /\ completion_order = << >>
    /\ validations = << >>
    /\ last_response = None
    /\ registered = TRUE
    /\ roadmaps = << >>
    /\ final_status = "running"
    /\ trace_spans = SpanBag(<< Span("interviewer", 0, "success"),
                                Span("architect", 0, "success") >>)
    /\ client = [cancel |-> "none", consumer |-> "reading"]
    /\ tasks = [i \in 1..HaltSessions |->
                  IF i <= MAX_CONCURRENT_API_CALLS
                  THEN [NewTask("research", 1, SessionId(i)) EXCEPT !.st = "holding", !.sem = 1]
                  ELSE NewTask("research", 1, SessionId(i))]
    /\ semaphores = << 0 >>
    /\ api_semaphore = Some(1)
    /\ gs = << >>
    /\ arch = << >>
    /\ AgentsIdle

NextHalt ==
    \/ \E i \in 1..HaltSessions : TaskAcquire(i)
    \/ \E i \in 1..HaltSessions : ResearchTaskReturns(i)
    \/ \E i \in 1..HaltSessions : ResearchTaskFails(i)
    \/ ResearchFanIn
    \/ ErrorHandling("run")

SpecHalt == InitHalt /\ [][NextHalt]_vars

\* C32: once the stage of a run is error the run has halted: no agent call of
\* it is started afterwards, also not by a research or edit task that was
\* waiting at the admission gate when a sibling task failed.
C32_NoCallAfterError ==
    [][stage = "error" =>
          \A i \in 1..Len(tasks) :
             ~(tasks[i].st = "created" /\ tasks'[i].st = "holding")]_vars

----------------------------------------------------------------------------
(* Properties of one run (Spec): failures and what they leave behind *)

\* C33: when the Interviewer call fails inside generate_interview_questions,
\* the stage of the run becomes error and error_message records the
\* failure; the stage is not left at interviewing.
C33_InterviewerFailureIsError ==
    pc["run"] = "start_failed" =>
        /\ stage = "error"
        /\ stage # "interviewing"
        /\ error_message # None

\* an Editor stage ends with the failure of one of its Editor calls
EditorStageFails == pc["run"] = "revising" /\ exc'["run"] = "edit"

\* C38: when an Editor call fails during an Editor stage,
\* state.researched_sessions still holds the complete list as it was before
\* the stage (no partly edited list is written to the state), the run moves
\* to error, and fix_attempt and fix_history already record the attempt that
\* failed.
C38_FailedEditLeavesList ==
    /\ [][pc["run"] = "revising" => researched_sessions' = researched_sessions]_vars
    /\ [][EditorStageFails =>
             /\ stage' = "error"
             /\ pc'["run"] = "error_trace_save"
             /\ fix_attempt' = fix_attempt /\ fix_history' = fix_history]_vars
    /\ [](exc["run"] = "edit" =>
             /\ stage = "error"
             /\ Len(researched_sessions) = Len(session_outline[1])
             /\ OneToOne(researched_sessions, session_outline[1])
             /\ fix_attempt >= 1
             /\ Len(fix_history) = fix_attempt
             /\ fix_history[fix_attempt].attempt = fix_attempt)

\* of the two Editor calls of the first Editor stage one returned and one
\* raised: the list is the researched one
C38_Witness ==
    /\ exc["run"] = "edit"
    /\ fix_attempt = 1
    /\ Len(tasks) = 2
    /\ \E k \in 1..2 : tasks[k].st = "done" /\ tasks[k].out # None
    /\ \E k \in 1..2 : tasks[k].st = "failed"
    /\ Len(researched_sessions) = 2
    /\ \A i \in 1..2 : researched_sessions[i].content = 0


----------------------------------------------------------------------------
(* Records left by a failed run; requests interleaved on one pipeline id *)

\* run_pipeline ended in its exception handler
RunFailed == stage = "error" /\ pc["run"] = "ended"

\* C39: a run that ended in stage error has persisted no roadmap record and
\* no session record, also when the failure occurred while saving.
C39_FailedRunPersistsNothing ==
    RunFailed => roadmaps = << >> /\ SessionDocs = << >>

\* a generator of the pipeline is between its first and its last step
GeneratorActive(who) ==
    pc[who] \notin {"none", "initialized", "interviewer_call", "awaiting_answers",
                    "start_failed", "cancelled", "ended"}

\* C37: whatever the interleaving of the requests on one pipeline id, at
\* most one roadmap record is persisted for it and its state is never being
\* mutated by run_pipeline and proceed_after_review at once.
C37_OneRoadmapOneWriter ==
    /\ Len(roadmaps) <= 1
    /\ ~(GeneratorActive("run") /\ GeneratorActive("review"))


----------------------------------------------------------------------------
(* Strings of the model turned into enumeration values (SpecConvert) *)

\* largest number of sessions of Phase 1, and of issues of a response
MaxRawItems == 2

\* the members of SessionType
SessionTypes == {"concept", "tutorial", "practice", "project", "review"}

\* session_type strings of Phase 1, and issues of the Validator's response
RawSessionTypes == {"concept", "PROJECT", "lecture", ""}
RawIssues ==
    { RawIssue(t, sv, << 0 >>) : t \in {"GAP", "style"},
                                sv \in {"HIGH", "critical", "medium"} }

\* the sequences of at most n elements of a set
RECURSIVE SeqsUpTo(_, _)
SeqsUpTo(S, n) ==
    IF n = 0 THEN { << >> }
    ELSE SeqsUpTo(S, n - 1) \cup
           { Append(q, x) : q \in { r \in SeqsUpTo(S, n - 1) : Len(r) = n - 1 }, x \in S }

\* try: SessionType(minimal.session_type.lower())
\* except ValueError: SessionType.CONCEPT
ConvertSessionType(raw) ==
    IF Lower(raw) \in SessionTypes THEN Lower(raw) ELSE "concept"

\* the session the issues of the response point at
ConvertedSessions == << [outline_id |-> SessionId(1)] >>

\* create_outline holds the Phase-1 sessions, validate holds the response
ConvertCalls(raw_types, issues) ==
    [st |-> "converting",
     raw_types |-> raw_types,
     types |-> << >>,
     response |-> VResponse(TRUE, issues, 80),
     result |-> None]

\* one iteration of the loop of create_outline: the type of the next session
SessionTypeConverted ==
    /\ arch # << >>
    /\ arch.st = "converting"
    /\ Len(arch.types) < Len(arch.raw_types)
    /\ arch' = [arch EXCEPT !.types =
                  Append(@, ConvertSessionType(arch.raw_types[Len(arch.types) + 1]))]
    /\ UNCHANGED << statevars, runvars, semvars, gs, yt, fv, ed, nr, client >>

\* validate converts the issues of the response and returns its result
ValidateConverted ==
    /\ arch # << >>
    /\ arch.st = "converting"
    /\ arch.result = None
    /\ ~ValidateRaises(arch.response, ConvertedSessions)
    /\ arch' = [arch EXCEPT !.result = Some(Validate(arch.response, ConvertedSessions))]
    /\ UNCHANGED << statevars, runvars, semvars, gs, yt, fv, ed, nr, client >>

InitConvert ==
    /\ PipelineParked
    /\ SemInit
    /\ gs = << >>
    /\ AgentsIdle
    /\ arch \in { ConvertCalls(t, i) : t \in SeqsUpTo(RawSessionTypes, MaxRawItems),
                                      i \in SeqsUpTo(RawIssues, MaxRawItems) }

NextConvert ==
    \/ SessionTypeConverted
    \/ ValidateConverted

SpecConvert == InitConvert /\ [][NextConvert]_vars

\* strings that name no member, in either case
UnknownSessionTypes == {"lecture", ""}
UnknownIssueTypes == {"style"}
UnknownSeverities == {"critical"}

\* C35: an unrecognized session_type yields concept, an unrecognized
\* issue_type yields coherence and an unrecognized severity yields medium;
\* no conversion raises, so every string is converted; and a result is
\* invalid only when some issue was given severity high by the model, never
\* because of a severity defaulted to medium.
C35_UnknownStringsDefault ==
    /\ \A k \in 1..Len(arch.types) :
          /\ arch.types[k] \in SessionTypes
          /\ arch.raw_types[k] \in UnknownSessionTypes => arch.types[k] = "concept"
    /\ Len(arch.types) < Len(arch.raw_types) => ENABLED SessionTypeConverted
    /\ arch.result = None => ENABLED ValidateConverted
    /\ arch.result # None =>
          LET raw == arch.response.issues
              got == arch.result[1].issues
          IN /\ Len(got) = Len(raw)
             /\ \A k \in 1..Len(raw) :
                   /\ raw[k].issue_type \in UnknownIssueTypes =>
                         got[k].issue_type = "coherence"
                   /\ raw[k].severity \in UnknownSeverities =>
                         got[k].severity = "medium"
             /\ ~arch.result[1].is_valid =>
                   \E k \in 1..Len(raw) : raw[k].severity = "HIGH"

\* both conversions are over: an unknown session type, and a response whose
\* only issue has an unknown type and an unknown severity, which is valid
C35_Witness ==
    /\ arch.raw_types = << "lecture", "PROJECT" >>
    /\ arch.types = << "concept", "project" >>
    /\ arch.response.issues = << RawIssue("style", "critical", << 0 >>) >>
    /\ arch.result # None
    /\ arch.result[1].is_valid
    /\ arch.result[1].issues[1].severity = "medium"
    /\ arch.result[1].issues[1].issue_type = "coherence"


----------------------------------------------------------------------------
(* The spans of the trace *)

\* the agent a task of a fan-out invokes
AgentOf(kind) ==
    CASE kind = "research" -> "researcher"
      [] kind = "video" -> "youtube"
      [] kind = "edit" -> "editor"

\* number of spans of the trace for an agent and a session
SpansOf(agent_name, key) ==
    CopiesIn(Span(agent_name, key, "success"), trace_spans)
        + CopiesIn(Span(agent_name, key, "error"), trace_spans)

\* start_creation or run_pipeline is over
RunOver == pc["run"] \in {"start_failed", "ended"}

\* number of Validator invocations that raised
ValidatorFailures == IF exc["run"] \in {"IndexError", "validator_call"} THEN 1 ELSE 0

\* number of invocations made so far on the session of a task by its agent:
\* one per fan-out, and for the Editor one per recorded fix attempt naming it
InvocationsOn(t) ==
    IF t.kind = "edit"
    THEN Cardinality({ r \in 1..Len(fix_history) :
                          t.id \in Range(fix_history[r].affected_sessions) })
    ELSE 1

\* the span complete_span leaves for the invocation of a finished task
SpanOfTask(t) ==
    Span(AgentOf(t.kind), t.id, IF t.st = "done" THEN "success" ELSE "error")

\* the agents invoked once per stage have one span per invocation
C34_SingleAgents ==
    RunOver =>
        /\ SpansOf("interviewer", 0) = 1
        /\ pc["run"] = "ended" => SpansOf("architect", 0) = 1
        /\ SpansOf("validator", 0) = Len(validations) + ValidatorFailures

\* C34: when the run is over, every agent invocation that ended, with success
\* or with an exception, has a span in the trace, of status success or error
\* respectively, and the trace holds as many spans for an agent and a session
\* as invocations were made; this holds also for the invocations of a
\* research or edit fan-out that ended while another task of the fan-out
\* failed.
C34_OneSpanPerInvocation ==
    /\ C34_SingleAgents
    /\ RunOver =>
          \A k \in 1..Len(tasks) :
              Finished(tasks[k]) =>
                  /\ CopiesIn(SpanOfTask(tasks[k]), trace_spans) >= 1
                  /\ SpansOf(AgentOf(tasks[k].kind), tasks[k].id) = InvocationsOn(tasks[k])

====
